---- MODULE Spec2Model ----
(***************************************************************************)
(* tsk: a terminal calendar browser.  This module models                   *)
(*   - the aggregation pipeline of the calendar adapters (FetchEvents,      *)
(*     deduplicateEvents, sortEventsByStartTime),                           *)
(*   - the smart out-of-office filter of the list command,                  *)
(*   - the layout engine and the message-driven state machine of the TUI,   *)
(*   - the next command (runNext) and the command-line helpers parseDate,   *)
(*     resolveCalendarNames, detectPrimaryCalendar and getOOOPeriods,       *)
(*   - the temporal status of an event and the Outlook token credential.    *)
(* Go slices are 0-based; the sequences below are 1-based, so an index i    *)
(* of the source is position i+1 here.  selectedIdx keeps the Go value.     *)
(***************************************************************************)
EXTENDS Integers, Sequences, FiniteSets, TLC

VARIABLES
    \* --- aggregation pipeline (adapter) ---
    calItems,      \* provider data: calendar id -> items the API returns for the window
    aggPc,         \* "idle" -> "once" -> "twice": how many times FetchEvents has run
    aggOrder,      \* calendarIDs visited by the latest FetchEvents run
    aggRaw,        \* `results` as handed to deduplicateEvents in the latest run
    aggDedup,      \* what deduplicateEvents returned in the latest run
    aggOut1,       \* what the first FetchEvents run returned
    aggOut2,       \* what the second FetchEvents run returned
    includeTypes,  \* opts.IncludeTypes of the Fetch Query, as a set
    includeStatuses, \* opts.IncludeStatuses of the Fetch Query, as a set
    excludeAllDay, \* opts.ExcludeAllDay
    apiDown,       \* calendars whose API call fails for the window
    aggErr,        \* the error the latest FetchEvents run returned
    \* --- smart out-of-office filter (list command) ---
    oooEvents,     \* the events handed to filterEventsOutsideOOO
    oooPeriods,    \* the out-of-office periods handed to it
    oooFiltered,   \* what it returned
    oooPc,         \* "input" -> "filtered"
    \* --- TUI: Model (internal/tui) and its environment ---
    build,         \* which Update is running: "model.go" or "part_003" (help overlay)
    events,        \* m.events
    selectedIdx,   \* m.selectedIdx (0-based, as in the source)
    currentDate,   \* m.currentDate: its calendar day (nothing else of it is read)
    width,         \* m.width
    height,        \* m.height
    listWidth,     \* m.listWidth
    detailWidth,   \* m.detailWidth
    contentHeight, \* m.contentHeight
    compactMode,   \* m.compactMode
    viewportReady, \* m.viewportReady
    focusedPanel,  \* m.focusedPanel
    showHelp,      \* m.showHelp (part_003 only)
    loading,       \* m.loading
    err,           \* m.err: NoErr for nil
    now,           \* what time.Now() returned when a handler read it last
    cmds,          \* loadEvents commands in flight: day of their window -> how many
    ticks,         \* tick commands in flight
    eventsDay,     \* history: the day whose window m.events was fetched for
    lastMsg,       \* history: the kind of the message handled last
    lastCmd,       \* history: the command that handler returned
    prev,          \* history: <<len(m.events), m.selectedIdx>> before that message
    \* --- tsk next (runNext) ---
    nextEvents,    \* events: what FetchEvents and the filters handed to runNext
    nextNow,       \* now: time.Now() as runNext read it
    noAllDay,      \* the --no-allday flag
    nextShown,     \* the events printed
    nextReport,    \* "input" before the run; then what was printed: "none",
                   \* "next" (printNextEvent) or "conflict" (printConcurrentEvents)
    \* --- command line: parseDate ---
    dateNow,       \* time.Now() as parseDate reads it
    dateInput,     \* s: the text given to --from or --to
    dateOut,       \* what parseDate returned: [t, err]
    datePc,        \* "input" -> "parsed"
    \* --- list command with smart out-of-office (listEvents) ---
    listHeld,      \* the events the calendars hold, ordered by start
    listNow,       \* now: time.Now() as listEvents read it
    listStart,     \* start: the beginning of the listed range
    listShowOOO,   \* the --ooo flag
    listPeriods,   \* oooPeriods
    listOut,       \* the events printed
    listPc,        \* "input" -> "listed"
    \* --- calendar filter (--calendars) ---
    calCmd,        \* the command run: "list", "next" or "ui"
    calFilter,     \* filterNames: the names given, split at the commas
    calIDs,        \* calendarIDs: what resolveCalendarNames returned
    calErr,        \* the error the command returned before fetching
    calPc,         \* "input" -> "resolved" or "failed"
    \* --- primary calendar (detectPrimaryCalendar) ---
    detCalendars,  \* adapter.Calendars(): id -> name
    detConfigured, \* configured: the primary_calendar setting
    detOut,        \* what detectPrimaryCalendar returned
    detPc,         \* "input" -> "detected"
    \* --- temporal status of an event (detail panel, tsk next) ---
    statEvent,     \* the event
    statNow,       \* now: time.Now() as the handler read it
    statNoAllDay,  \* the --no-allday flag of tsk next
    statLines,     \* the status lines updateDetailContent appended
    statEligible,  \* `eligible` of runNext for that event alone
    statPc,        \* which of "detail" and "next" have run
    \* --- Outlook adapter: the saved OAuth token ---
    authClock,     \* the time, in hours
    authToken,     \* o.token
    authIssued,    \* history: every token o.token has held
    gtPc,          \* where each caller of GetToken is
    gtTok,         \* tok: what accessToken returned to each caller
    gtOut          \* what GetToken returned to each caller

aggVars == <<calItems, aggPc, aggOrder, aggRaw, aggDedup, aggOut1, aggOut2,
             includeTypes, includeStatuses, excludeAllDay, apiDown, aggErr>>

oooVars == <<oooEvents, oooPeriods, oooFiltered, oooPc>>

modelVars == <<events, selectedIdx, currentDate, width, height, listWidth,
               detailWidth, contentHeight, compactMode, viewportReady,
               focusedPanel, showHelp, loading, err>>

tuiVars == <<build, modelVars, now, cmds, ticks, eventsDay, lastMsg, lastCmd,
             prev>>

nextVars == <<nextEvents, nextNow, noAllDay, nextShown, nextReport>>

dateVars == <<dateNow, dateInput, dateOut, datePc>>

listVars == <<listHeld, listNow, listStart, listShowOOO, listPeriods, listOut,
              listPc>>

calVars == <<calCmd, calFilter, calIDs, calErr, calPc>>

detVars == <<detCalendars, detConfigured, detOut, detPc>>

statVars == <<statEvent, statNow, statNoAllDay, statLines, statEligible,
              statPc>>

tokenVars == <<authClock, authToken, authIssued, gtPc, gtTok, gtOut>>

cliVars == <<dateVars, listVars, calVars, detVars, statVars, tokenVars>>

vars == <<aggVars, oooVars, tuiVars, nextVars, cliVars>>

----------------------------------------------------------------------------
(* Bounds of the model *)

\* most items one calendar returns for the window
MaxPerCal == 2

\* most events handed to the out-of-office filter
MaxOOOEvents == 4

\* most out-of-office periods handed to the filter
MaxOOOPeriods == 1

\* most events a fetch returns to the TUI for one day
MaxEvents == 3

\* the TUI can be moved to the days 0..MaxDay
MaxDay == 1

\* most loadEvents commands in flight at once
MaxPending == 2

\* widest terminal the layout engine is tried on
MaxWidth == 200

\* events handed to runNext
MaxNextEvents == 3

\* most events the calendars hold when the list command is run
MaxListEvents == 4

\* most names given with --calendars
MaxFilterNames == 2

\* goroutines calling GetToken at once
MaxCallers == 3

\* hours the clock runs for
MaxHours == 2

----------------------------------------------------------------------------
(* Time: instants are minutes on the local clock, counted from the local     *)
(* midnight of day 0.  time.Time.Local() keeps the instant and only selects  *)
(* the zone Date() is read in; the zone has a fixed offset (no DST change).  *)

\* time.Hour, in minutes
Hour == 60

\* 24 * time.Hour
DayLen == 24 * Hour

\* the instant h:m of day d
At(d, h, m) == d * DayLen + h * Hour + m

\* t.Date(): the local calendar day of an instant
DateOf(t) == t \div DayLen

\* time.Date(y, m, d, 0, 0, 0, 0, loc): local midnight of that day
Midnight(day) == day * DayLen

----------------------------------------------------------------------------
(* Aggregation pipeline: google/outlook adapters *)

\* g.calendars: the calendars of the account (id -> name; the id stands for both)
Calendars == {"primary", "team"}

StatusAccepted == "accepted"
StatusRejected == "rejected"

\* ICalUIDs the API can report; "" is an item without one
DedupeKeys == {"", "uidA", "uidB"}

\* start instants of the items, as small integers
AggStarts == {1, 2}

NoErr == "nil"

TypeDefault == "default"
TypeOutOfOffice == "outOfOffice"
TypeFocusTime == "focusTime"
TypeWorkLocation == "workingLocation"

\* opts.Start and opts.End: the window of the Fetch Query, on the scale of
\* AggStarts
WindowStart == 0
WindowEnd == 3

\* what the API returns for one event of one calendar: regular timed events
\* that end with the window; IsDate says that the item carries Start.Date
\* and no Start.DateTime
ApiItems ==
    [ICalUID : DedupeKeys, Start : AggStarts, End : {WindowEnd},
     IsDate : {FALSE}, EventType : {"default"}]

\* the switch over item.EventType: anything but the three special kinds is a
\* regular event
ParseType(eventType) ==
    CASE eventType = "outOfOffice" -> TypeOutOfOffice
      [] eventType = "focusTime" -> TypeFocusTime
      [] eventType = "workingLocation" -> TypeWorkLocation
      [] OTHER -> TypeDefault

\* the user's response as recorded on each calendar
ResponseOn(calID) == IF calID = "primary" THEN StatusAccepted ELSE StatusRejected

\* item.HtmlLink: the event page of that calendar
HtmlLinkOn(calID, item) == <<calID, item.ICalUID, item.Start>>

\* a parseEvent that fills Calendars with the event's own calendar
parseEventSelfAffiliated(item, calID) ==
    [ DedupeKey |-> item.ICalUID,
      Calendar  |-> calID,
      Status    |-> ResponseOn(calID),
      URL       |-> HtmlLinkOn(calID, item),
      Start     |-> item.Start,
      End       |-> item.End,
      IsAllDay  |-> item.IsDate,
      Type      |-> ParseType(item.EventType),
      Calendars |-> << [Calendar |-> calID, Status |-> ResponseOn(calID),
                        URL |-> HtmlLinkOn(calID, item)] >> ]

parseEvent(item, calID) ==
    [ DedupeKey |-> item.ICalUID,
      Calendar  |-> calID,
      Status    |-> ResponseOn(calID),
      URL       |-> HtmlLinkOn(calID, item),
      Start     |-> item.Start,
      End       |-> item.End,
      IsAllDay  |-> item.IsDate,
      Type      |-> ParseType(item.EventType),
      Calendars |-> << >> ]

RECURSIVE parseAll(_, _)
parseAll(items, calID) ==
    IF items = << >> THEN << >>
    ELSE <<parseEvent(Head(items), calID)>> \o parseAll(Tail(items), calID)

\* containsType(types, t)
containsType(types, t) == t \in types

\* the type filter of the item loop: an item is dropped only when
\* opts.IncludeTypes is non-empty and does not hold its type
KeptByType(types, event) ==
    ~(Cardinality(types) > 0 /\ ~containsType(types, event.Type))

\* containsStatus(statuses, s)
containsStatus(statuses, st) == st \in statuses

\* a status filter that lets every event through
KeptByStatusAlways(statuses, event) == TRUE

\* the status filter of the item loop
KeptByStatus(statuses, event) ==
    ~(Cardinality(statuses) > 0 /\ ~containsStatus(statuses, event.Status))

\* the all-day filter of the item loop
KeptByAllDay(exclude, event) == ~(exclude /\ event.IsAllDay)

\* no reclassification: a timed event stays timed whatever it spans
ReclassifyNever(event) == event

\* a timed event that spans the whole window is treated as all-day:
\* !event.IsAllDay && !event.Start.After(opts.Start) && !event.End.Before(opts.End)
Reclassify(event) ==
    IF ~event.IsAllDay /\ ~(event.Start > WindowStart) /\ ~(event.End < WindowEnd)
    THEN [event EXCEPT !.IsAllDay = TRUE]
    ELSE event

RECURSIVE ReclassifyAll(_)
ReclassifyAll(evs) ==
    IF evs = << >> THEN << >>
    ELSE <<Reclassify(Head(evs))>> \o ReclassifyAll(Tail(evs))

\* the item loop: the events of the page, reclassified, that pass the three
\* filters
FilterPage(evs, types, statuses, exclude) ==
    SelectSeq(ReclassifyAll(evs),
              LAMBDA e : /\ KeptByType(types, e)
                         /\ KeptByStatus(statuses, e)
                         /\ KeptByAllDay(exclude, e))

\* (events, err) of one calendar: a failed API call returns nil and an error
fetchEventsFromCalendar(calID) ==
    IF calID \in apiDown
    THEN [events |-> << >>, err |-> "api call failed"]
    ELSE [events |-> FilterPage(parseAll(calItems[calID], calID),
                                includeTypes, includeStatuses, excludeAllDay),
          err |-> NoErr]

CalendarResponse(event) ==
    [Calendar |-> event.Calendar, Status |-> event.Status, URL |-> event.URL]

\* a merge that forgets the affiliation of the duplicate
MergeDuplicateDropped(result, idx, event) == result

\* a merge that skips a duplicate seen on the representative's own calendar
MergeDuplicateOtherCalendarOnly(result, idx, event) ==
    IF event.Calendar = result[idx].Calendar THEN result
    ELSE [result EXCEPT ![idx].Calendars = Append(@, CalendarResponse(event))]

\* a merge that puts the duplicate's affiliation in front
MergeDuplicatePrepended(result, idx, event) ==
    [result EXCEPT ![idx].Calendars = <<CalendarResponse(event)>> \o @]

\* result[idx].Calendars = append(result[idx].Calendars, CalendarResponse{...})
MergeDuplicate(result, idx, event) ==
    [result EXCEPT ![idx].Calendars = Append(@, CalendarResponse(event))]

NoSeen == [k \in {} |-> 0]

\* a scan that treats the empty key like any other key
RECURSIVE DedupLoopEmptyKeyMerged(_, _, _, _)
DedupLoopEmptyKeyMerged(evs, i, seen, result) ==
    IF i > Len(evs) THEN result
    ELSE LET event == evs[i] IN
         IF event.DedupeKey \in DOMAIN seen
         THEN DedupLoopEmptyKeyMerged(evs, i + 1, seen,
                  MergeDuplicate(result, seen[event.DedupeKey], event))
         ELSE DedupLoopEmptyKeyMerged(evs, i + 1,
                  seen @@ (event.DedupeKey :> Len(result) + 1),
                  Append(result,
                         [event EXCEPT !.Calendars = <<CalendarResponse(event)>>]))

RECURSIVE DedupLoop(_, _, _, _)
DedupLoop(evs, i, seen, result) ==
    IF i > Len(evs) THEN result
    ELSE LET event == evs[i] IN
         IF event.DedupeKey = ""
         THEN DedupLoop(evs, i + 1, seen, Append(result, event))
         ELSE IF event.DedupeKey \in DOMAIN seen
         THEN DedupLoop(evs, i + 1, seen,
                  MergeDuplicate(result, seen[event.DedupeKey], event))
         ELSE DedupLoop(evs, i + 1,
                  seen @@ (event.DedupeKey :> Len(result) + 1),
                  Append(result,
                         [event EXCEPT !.Calendars = <<CalendarResponse(event)>>]))

deduplicateEvents(evs) == DedupLoop(evs, 1, NoSeen, << >>)

Swap(s, i, j) == [s EXCEPT ![i] = s[j], ![j] = s[i]]

\* a comparison turned the wrong way round
StartBeforeReversed(a, b) == a.Start > b.Start

\* events[j].Start.Before(events[i].Start)
StartBefore(a, b) == a.Start < b.Start

RECURSIVE SortInner(_, _, _)
SortInner(evs, i, j) ==
    IF j > Len(evs) THEN evs
    ELSE SortInner(IF StartBefore(evs[j], evs[i])
                   THEN Swap(evs, i, j) ELSE evs, i, j + 1)

RECURSIVE SortOuter(_, _)
SortOuter(evs, i) ==
    IF i > Len(evs) THEN evs
    ELSE SortOuter(SortInner(evs, i, i + 1), i + 1)

sortEventsByStartTime(evs) == SortOuter(evs, 1)

\* results = append(results, events...) over the visited calendars
\* a loop that gives up at the first failing calendar instead of going on
RECURSIVE CollectResultsStopAtFailure(_)
CollectResultsStopAtFailure(calendarIDs) ==
    IF calendarIDs = << >> THEN << >>
    ELSE IF Head(calendarIDs) \notin Calendars
         THEN CollectResultsStopAtFailure(Tail(calendarIDs))
         ELSE LET fetched == fetchEventsFromCalendar(Head(calendarIDs))
              IN IF fetched.err # NoErr THEN << >>
                 ELSE fetched.events
                      \o CollectResultsStopAtFailure(Tail(calendarIDs))

RECURSIVE CollectResults(_)
CollectResults(calendarIDs) ==
    IF calendarIDs = << >> THEN << >>
    ELSE (IF Head(calendarIDs) \in Calendars
          THEN LET fetched == fetchEventsFromCalendar(Head(calendarIDs))
               IN IF fetched.err # NoErr THEN << >> ELSE fetched.events
          ELSE << >>)
         \o CollectResults(Tail(calendarIDs))

\* `for calID := range g.calendars`: Go visits a map in an unspecified order
VisitOrders ==
    {o \in [1..Cardinality(Calendars) -> Calendars] :
        \A i, j \in DOMAIN o : i # j => o[i] # o[j]}

\* the records of s at the positions in I, in the order of s
SubSeqAt(s, I) ==
    LET F[i \in 0..Len(s)] ==
            IF i = 0 THEN << >>
            ELSE IF i \in I THEN Append(F[i - 1], s[i]) ELSE F[i - 1]
    IN F[Len(s)]

SeqsUpTo(S, n) == UNION {[1..k -> S] : k \in 0..n}

AggInit ==
    /\ calItems \in [Calendars -> SeqsUpTo(ApiItems, MaxPerCal)]
    /\ aggPc = "idle"
    /\ aggOrder = << >>
    /\ aggRaw = << >>
    /\ aggDedup = << >>
    /\ aggOut1 = << >>
    /\ aggOut2 = << >>
    /\ includeTypes = {TypeDefault}
    /\ includeStatuses = {}
    /\ excludeAllDay = FALSE
    /\ apiDown = {}
    /\ aggErr = NoErr

\* items of the kinds the API reports, with and without an ICalUID;
\* "fromGmail" is one of the kinds parseEvent has no case for
FetchItems ==
    { [ICalUID |-> "", Start |-> 2, End |-> WindowEnd, IsDate |-> FALSE,
       EventType |-> "fromGmail"],
      [ICalUID |-> "uidA", Start |-> 1, End |-> WindowEnd, IsDate |-> FALSE,
       EventType |-> "outOfOffice"],
      [ICalUID |-> "uidB", Start |-> 1, End |-> WindowEnd, IsDate |-> FALSE,
       EventType |-> "focusTime"],
      [ICalUID |-> "uidA", Start |-> 2, End |-> WindowEnd, IsDate |-> FALSE,
       EventType |-> "workingLocation"] }

\* opts.IncludeTypes as the commands build it, and the zero value of
\* core.FetchOptions
IncludeTypeSets ==
    { {}, {TypeDefault}, {TypeDefault, TypeOutOfOffice} }

\* a Fetch Query over calendars of which any may be failing
FetchInit ==
    /\ calItems \in [Calendars -> SeqsUpTo(FetchItems, MaxPerCal)]
    /\ includeTypes \in IncludeTypeSets
    /\ includeStatuses = {}
    /\ excludeAllDay = FALSE
    /\ apiDown \in SUBSET Calendars
    /\ aggPc = "idle"
    /\ aggOrder = << >>
    /\ aggRaw = << >>
    /\ aggDedup = << >>
    /\ aggOut1 = << >>
    /\ aggOut2 = << >>
    /\ aggErr = NoErr

\* an invitation on both calendars, an all-day item, a timed item that spans
\* the whole window, and a timed item inside it
QueryItems ==
    { [ICalUID |-> "uidA", Start |-> 1, End |-> 2, IsDate |-> FALSE,
       EventType |-> "default"],
      [ICalUID |-> "", Start |-> WindowStart, End |-> WindowEnd,
       IsDate |-> TRUE, EventType |-> "default"],
      [ICalUID |-> "uidB", Start |-> WindowStart, End |-> WindowEnd,
       IsDate |-> FALSE, EventType |-> "default"],
      [ICalUID |-> "", Start |-> 2, End |-> WindowEnd, IsDate |-> FALSE,
       EventType |-> "default"] }

\* opts.IncludeStatuses: none, or the responses one calendar records
IncludeStatusSets == { {}, {StatusAccepted}, {StatusRejected} }

\* a Fetch Query with a status filter and the all-day switch
QueryInit ==
    /\ calItems \in [Calendars -> SeqsUpTo(QueryItems, MaxPerCal)]
    /\ includeTypes = {TypeDefault}
    /\ includeStatuses \in IncludeStatusSets
    /\ excludeAllDay \in BOOLEAN
    /\ apiDown = {}
    /\ aggPc = "idle"
    /\ aggOrder = << >>
    /\ aggRaw = << >>
    /\ aggDedup = << >>
    /\ aggOut1 = << >>
    /\ aggOut2 = << >>
    /\ aggErr = NoErr

AggIdle ==
    /\ calItems = [c \in Calendars |-> << >>]
    /\ aggPc = "off"
    /\ aggOrder = << >>
    /\ aggRaw = << >>
    /\ aggDedup = << >>
    /\ aggOut1 = << >>
    /\ aggOut2 = << >>
    /\ includeTypes = {TypeDefault}
    /\ includeStatuses = {}
    /\ excludeAllDay = FALSE
    /\ apiDown = {}
    /\ aggErr = NoErr

\* GoogleAdapter.FetchEvents / OutlookAdapter.FetchEvents with opts.CalendarIDs empty
FetchEvents(order) ==
    /\ aggPc \in {"idle", "once"}
    /\ LET results == CollectResults(order)
           deduped == deduplicateEvents(results)
           sorted  == sortEventsByStartTime(deduped)
       IN /\ aggOrder' = order
          /\ aggRaw' = results
          /\ aggDedup' = deduped
          /\ aggErr' = NoErr
          /\ IF aggPc = "idle"
             THEN aggOut1' = sorted /\ aggOut2' = aggOut2 /\ aggPc' = "once"
             ELSE aggOut2' = sorted /\ aggOut1' = aggOut1 /\ aggPc' = "twice"
    /\ UNCHANGED <<calItems, includeTypes, includeStatuses, excludeAllDay,
                   apiDown, oooVars, tuiVars, nextVars, cliVars>>

AggNext == \E order \in VisitOrders : FetchEvents(order)

----------------------------------------------------------------------------
(* Smart out-of-office filter: list command *)

\* the calendar detectPrimaryCalendar settles on
PrimaryCalendar == "primary"

RECURSIVE DayWalk(_, _, _)
\* the inner loop of isEventOnOOODay: `for current.Before(end) { ... }`
DayWalk(event, current, end) ==
    IF ~(current < end) THEN FALSE
    ELSE LET dayStart == Midnight(DateOf(current))
             dayEnd   == dayStart + DayLen
         IN IF event.Start < dayEnd /\ event.End > dayStart THEN TRUE
            ELSE DayWalk(event, current + DayLen, end)

RECURSIVE isEventOnOOODay(_, _)
isEventOnOOODay(event, periods) ==
    IF periods = << >> THEN FALSE
    ELSE IF DayWalk(event, Head(periods).Start, Head(periods).End) THEN TRUE
    ELSE isEventOnOOODay(event, Tail(periods))

\* a test that lets every event of the primary calendar through
IsOOOEventItselfAnyType(event, primaryCalendar) ==
    event.Calendar = primaryCalendar

\* event.Calendar.ID == primaryCalendar && event.Type == core.TypeOutOfOffice
IsOOOEventItself(event, primaryCalendar) ==
    event.Calendar = primaryCalendar /\ event.Type = TypeOutOfOffice

RECURSIVE filterEventsOutsideOOO(_, _, _)
filterEventsOutsideOOO(evs, periods, primaryCalendar) ==
    IF evs = << >> THEN << >>
    ELSE LET event == Head(evs)
             rest  == filterEventsOutsideOOO(Tail(evs), periods, primaryCalendar)
         IN IF isEventOnOOODay(event, periods)
            THEN (IF IsOOOEventItself(event, primaryCalendar)
                  THEN <<event>> \o rest ELSE rest)
            ELSE <<event>> \o rest

\* time ranges of the events the filter is tried on, by start: days 0..2,
\* day 1 being the out-of-office day
OOORanges ==
    << [Start |-> At(0, 23, 0), End |-> At(1, 0, 0)],    \* ends as day 1 starts
       [Start |-> At(1, 0, 0),  End |-> At(2, 0, 0)],    \* the whole of day 1
       [Start |-> At(1, 9, 0),  End |-> At(1, 17, 0)],   \* working hours of day 1
       [Start |-> At(1, 10, 0), End |-> At(1, 11, 0)],   \* inside day 1
       [Start |-> At(1, 23, 0), End |-> At(2, 0, 0)],    \* inside, ends at its end
       [Start |-> At(2, 0, 0),  End |-> At(2, 1, 0)] >>  \* starts as day 1 ends

OOOPeriodRanges ==
    { [Start |-> At(1, 0, 0),  End |-> At(2, 0, 0)],    \* the whole of day 1
      [Start |-> At(1, 9, 0),  End |-> At(1, 17, 0)],   \* working hours of day 1
      [Start |-> At(1, 22, 0), End |-> At(2, 10, 0)] }  \* overnight, day 1 to day 2

\* the events the calendars hold, ordered by start as FetchEvents returns
\* them: each range on each calendar with each type
OOOEventPool ==
    LET cals  == <<"primary", "team">>
        types == <<TypeDefault, TypeOutOfOffice>>
        per   == Len(cals) * Len(types)
    IN [k \in 1..(Len(OOORanges) * per) |->
           [Calendar |-> cals[(((k - 1) \div Len(types)) % Len(cals)) + 1],
            Type     |-> types[((k - 1) % Len(types)) + 1],
            Start    |-> OOORanges[((k - 1) \div per) + 1].Start,
            End      |-> OOORanges[((k - 1) \div per) + 1].End]]

RECURSIVE IndexSets(_, _)
\* the subsets of 1..n of at most k elements
IndexSets(n, k) ==
    IF n = 0 \/ k = 0 THEN {{}}
    ELSE IndexSets(n - 1, k)
         \cup {I \cup {n} : I \in IndexSets(n - 1, k - 1)}

\* FetchEvents returns its events ordered by start
StartOrdered(s) == \A i \in DOMAIN s : i < Len(s) => s[i].Start <= s[i + 1].Start

\* what FetchEvents can return: at most MaxOOOEvents of the events held
OOOInputs ==
    {SubSeqAt(OOOEventPool, I) :
        I \in IndexSets(Len(OOOEventPool), MaxOOOEvents)}

OOOInit ==
    /\ oooEvents \in {s \in OOOInputs : StartOrdered(s)}
    /\ oooPeriods \in SeqsUpTo(OOOPeriodRanges, MaxOOOPeriods)
    /\ oooFiltered = << >>
    /\ oooPc = "input"

OOOIdle ==
    /\ oooEvents = << >>
    /\ oooPeriods = << >>
    /\ oooFiltered = << >>
    /\ oooPc = "idle"

\* listEvents with smart_ooo: events = filterEventsOutsideOOO(events, oooPeriods, primaryCal)
FilterOOO ==
    /\ oooPc = "input"
    /\ oooFiltered' = filterEventsOutsideOOO(oooEvents, oooPeriods, PrimaryCalendar)
    /\ oooPc' = "filtered"
    /\ UNCHANGED <<oooEvents, oooPeriods, aggVars, tuiVars, nextVars, cliVars>>

----------------------------------------------------------------------------
(* TUI: layout engine *)

Max(a, b) == IF a > b THEN a ELSE b
Min(a, b) == IF a < b THEN a ELSE b

\* compactThreshold := 70
CompactThreshold == 70

\* the floor of the list panel in side-by-side mode
MinListWidth == 30

\* the floor of the detail panel in side-by-side mode
MinDetailWidth == 35

\* m.contentHeight of calculateLayout
LayoutContentHeight(h) == Max(Max(h, 10) - 6, 5)

\* m.compactMode = width < compactThreshold
LayoutCompact(w) == w < CompactThreshold

\* the list floor applied with the wrong constant
LayoutListWidthLowFloor(w) ==
    IF LayoutCompact(w) THEN Max(w - 4, 20)
    ELSE Max(IF w < 100 THEN (w * 40) \div 100
             ELSE IF w < 140 THEN (w * 35) \div 100
             ELSE Min((w * 30) \div 100, 55),
             MinListWidth - 5)

\* m.listWidth of calculateLayout
LayoutListWidth(w) ==
    IF LayoutCompact(w) THEN Max(w - 4, 20)
    ELSE Max(IF w < 100 THEN (w * 40) \div 100
             ELSE IF w < 140 THEN (w * 35) \div 100
             ELSE Min((w * 30) \div 100, 55),
             MinListWidth)

\* m.detailWidth of calculateLayout
LayoutDetailWidth(w) ==
    IF LayoutCompact(w) THEN Max(w - 4, 20)
    ELSE Max(w - LayoutListWidth(w) - 5, MinDetailWidth)

----------------------------------------------------------------------------
(* TUI: what a fetch can return *)

FetchErr == "fetch failed"

FocusList == "list"
FocusDetail == "detail"

\* the day the session is started on; the clock stays within it
Today == 0

\* instants at which the clock is read
ClockInstants == {At(Today, 9, 0), At(Today, 11, 30), At(Today, 15, 0)}

Days == 0..MaxDay

\* the events of day d on the calendars: an all-day entry and three timed ones
DaySchedule(d) ==
    << [Start |-> At(d, 0, 0),  End |-> At(d + 1, 0, 0), IsAllDay |-> TRUE,
        MeetingLink |-> ""],
       [Start |-> At(d, 9, 0),  End |-> At(d, 10, 0),    IsAllDay |-> FALSE,
        MeetingLink |-> "https://meet/standup"],
       [Start |-> At(d, 11, 0), End |-> At(d, 12, 0),    IsAllDay |-> FALSE,
        MeetingLink |-> ""],
       [Start |-> At(d, 14, 0), End |-> At(d, 15, 0),    IsAllDay |-> FALSE,
        MeetingLink |-> "https://meet/review"] >>

\* what provider.FetchEvents can return for the window of day d: the first
\* or the last few entries of the day's schedule (the calendars change
\* between fetches), at most MaxEvents of them, ordered by start
DayLists(d) ==
    LET S == DaySchedule(d)
    IN { SubSeq(S, 1, k) : k \in 0..Min(MaxEvents, Len(S)) }
       \cup { SubSeq(S, Len(S) - k + 1, Len(S)) : k \in 0..Min(MaxEvents, Len(S)) }

----------------------------------------------------------------------------
(* TUI: temporal highlight *)

\* the isToday test of findNowEventIdx, scrollToNow, updateListContent, ...
IsToday(date, t) == date = DateOf(t)

\* a test that also takes an event starting right now for a future one
IsFutureTimedOrNow(event, t) == ~event.IsAllDay /\ event.Start >= t

\* !event.IsAllDay && event.Start.After(now)
IsFutureTimed(event, t) == ~event.IsAllDay /\ event.Start > t

RECURSIVE FirstFuture(_, _, _, _)
\* `for i, event := range m.events { if ... { return i } }`, none: dflt
FirstFuture(evs, i, t, dflt) ==
    IF i > Len(evs) THEN dflt
    ELSE IF IsFutureTimed(evs[i], t) THEN i - 1
    ELSE FirstFuture(evs, i + 1, t, dflt)

\* a default selection that is always the first event
findNowEventIdxFirst(evs, date, t) == 0

\* a fallback one past the last event
findNowEventIdxPastEnd(evs, date, t) ==
    IF Len(evs) = 0 THEN 0
    ELSE IF ~IsToday(date, t) THEN 0
    ELSE FirstFuture(evs, 1, t, Len(evs))

findNowEventIdx(evs, date, t) ==
    IF Len(evs) = 0 THEN 0
    ELSE IF ~IsToday(date, t) THEN 0
    ELSE FirstFuture(evs, 1, t, Len(evs) - 1)

\* scrollToNow: the line of the NOW divider (the list is scrolled to it less 2)
scrollToNowDividerLine(evs, t) ==
    LET nowDividerLine == FirstFuture(evs, 1, t, -1)
    IN IF nowDividerLine = -1 THEN Len(evs) ELSE nowDividerLine

\* scrollListToSelection: nowDividerIdx
scrollListNowDividerIdx(evs, t) ==
    LET nowDividerIdx == FirstFuture(evs, 1, t, -1)
    IN IF nowDividerIdx = -1 THEN Len(evs) ELSE nowDividerIdx

\* m.renderNowDivider()
NowLine == [divider |-> "NOW"]

\* m.renderListItem(event, i == m.selectedIdx, ...): the line of event i
ListItem(i) == [event |-> i]

RECURSIVE ListItems(_, _, _, _, _)
\* the loop of updateListContent and the check after it: the lines of the
\* list
ListItems(evs, i, nowLineAdded, isToday, t) ==
    IF i > Len(evs)
    THEN LET hasEndedEvents ==
                 \E k \in DOMAIN evs : ~evs[k].IsAllDay /\ evs[k].End < t
         IN IF isToday /\ ~nowLineAdded /\ (hasEndedEvents \/ Len(evs) > 0)
            THEN <<NowLine>> ELSE << >>
    ELSE LET add == isToday /\ ~nowLineAdded /\ IsFutureTimed(evs[i], t)
         IN (IF add THEN <<NowLine>> ELSE << >>) \o <<ListItem(i - 1)>>
            \o ListItems(evs, i + 1, nowLineAdded \/ add, isToday, t)

updateListContent(evs, date, t) ==
    IF Len(evs) = 0 THEN <<[text |-> "No events"]>>
    ELSE ListItems(evs, 1, FALSE, IsToday(date, t), t)

----------------------------------------------------------------------------
(* TUI: the state machine *)

\* terminal sizes of the resize messages
TuiWidths == {60, 100}
TuiHeights == {24}

Pending == LET S[d \in -1..MaxDay] == IF d = -1 THEN 0 ELSE S[d - 1] + cmds[d]
           IN S[MaxDay]

\* a loadEvents that hands no command back
IssueNone(day) == UNCHANGED cmds

\* m.loadEvents(): a command that fetches the window of the day m.currentDate
\* holds when the command is made
Issue(day) == cmds' = [cmds EXCEPT ![day] = @ + 1]

\* a step of the TUI leaves the other parts of the module alone
TuiOnly == UNCHANGED <<aggVars, oooVars, nextVars, cliVars>>

\* time.Now() in a handler: now is what the clock returned when it was read
\* last, and it never runs backwards
ReadClock == \E t \in ClockInstants : t >= now /\ now' = t

\* Update has handled a message of this kind and returned this command
Handled(kind, cmd) ==
    /\ lastMsg' = kind
    /\ lastCmd' = cmd
    /\ prev' = <<Len(events), selectedIdx>>
    /\ TuiOnly

Running == lastCmd # "quit"

\* NewModel and Init
TuiInit ==
    /\ events = << >>
    /\ selectedIdx = 0
    /\ now \in ClockInstants
    /\ currentDate = Today
    /\ width = 0 /\ height = 0
    /\ listWidth = 0 /\ detailWidth = 0 /\ contentHeight = 0
    /\ compactMode = FALSE
    /\ viewportReady = FALSE
    /\ focusedPanel = FocusList
    /\ showHelp = FALSE
    /\ loading = TRUE
    /\ err = NoErr
    /\ cmds = [d \in Days |-> IF d = Today THEN 1 ELSE 0]
    /\ ticks = 1
    /\ eventsDay = -1
    /\ lastMsg = "init"
    /\ lastCmd = "batch"
    /\ prev = <<0, 0>>

TuiIdle ==
    /\ build = "off"
    /\ events = << >>
    /\ selectedIdx = 0
    /\ now = At(Today, 0, 0)
    /\ currentDate = Today
    /\ width = 0 /\ height = 0
    /\ listWidth = 0 /\ detailWidth = 0 /\ contentHeight = 0
    /\ compactMode = FALSE
    /\ viewportReady = FALSE
    /\ focusedPanel = FocusList
    /\ showHelp = FALSE
    /\ loading = FALSE
    /\ err = NoErr
    /\ cmds = [d \in Days |-> 0]
    /\ ticks = 0
    /\ eventsDay = -1
    /\ lastMsg = "off"
    /\ lastCmd = "none"
    /\ prev = <<0, 0>>

\* case tea.WindowSizeMsg
WindowSizeMsg(w, h) ==
    /\ Running
    /\ width' = w /\ height' = h
    /\ contentHeight' = LayoutContentHeight(h)
    /\ compactMode' = LayoutCompact(w)
    /\ listWidth' = LayoutListWidth(w)
    /\ detailWidth' = LayoutDetailWidth(w)
    /\ viewportReady' = TRUE
    /\ ReadClock
    /\ Handled("resize", "none")
    /\ UNCHANGED <<build, events, selectedIdx, currentDate, focusedPanel,
                   showHelp, loading, err, cmds, ticks, eventsDay>>

\* the error branch with the list dropped
LoadedStateOnErrCleared(msgEvents, msgErr) ==
    IF msgErr # NoErr THEN <<FALSE, msgErr, << >>, 0>>
    ELSE <<FALSE, err, msgEvents, findNowEventIdx(msgEvents, currentDate, now')>>

\* a handler that drops a completion while another fetch is still in flight
LoadedStateOnlyLatest(msgEvents, msgErr) ==
    IF msgErr # NoErr THEN <<FALSE, msgErr, events, selectedIdx>>
    ELSE IF Pending > 1 THEN <<loading, err, events, selectedIdx>>
    ELSE <<FALSE, err, msgEvents, findNowEventIdx(msgEvents, currentDate, now')>>

\* an error branch that leaves m.loading as it was
LoadedStateErrStillLoading(msgEvents, msgErr) ==
    IF msgErr # NoErr THEN <<loading, msgErr, events, selectedIdx>>
    ELSE <<FALSE, err, msgEvents, findNowEventIdx(msgEvents, currentDate, now')>>

\* case eventsLoadedMsg: <<m.loading, m.err, m.events, m.selectedIdx>> after it
LoadedState(msgEvents, msgErr) ==
    IF msgErr # NoErr THEN <<FALSE, msgErr, events, selectedIdx>>
    ELSE <<FALSE, err, msgEvents, findNowEventIdx(msgEvents, currentDate, now')>>

\* a loadEvents command for the window of day d completes with what the
\* provider returned, and Update handles its eventsLoadedMsg
EventsLoadedMsg(d, msgEvents, msgErr) ==
    /\ Running
    /\ cmds[d] > 0
    /\ IF msgErr # NoErr THEN UNCHANGED now ELSE ReadClock
    /\ Handled(IF msgErr # NoErr THEN "failed" ELSE "loaded", "none")
    /\ cmds' = [cmds EXCEPT ![d] = @ - 1]
    /\ LET after == LoadedState(msgEvents, msgErr)
       IN /\ loading' = after[1]
          /\ err' = after[2]
          /\ events' = after[3]
          /\ selectedIdx' = after[4]
    /\ eventsDay' = IF msgErr # NoErr THEN eventsDay ELSE d
    /\ UNCHANGED <<build, currentDate, width, height, listWidth, detailWidth,
                   contentHeight, compactMode, viewportReady, focusedPanel,
                   showHelp, ticks>>

FetchCompleted ==
    \E d \in Days :
        \/ \E l \in DayLists(d) : EventsLoadedMsg(d, l, NoErr)
        \/ EventsLoadedMsg(d, << >>, FetchErr)

\* a tick handler that returns two tick commands
TickMsgTwice ==
    /\ Running
    /\ ticks > 0
    /\ ticks' = ticks - 1 + 2
    /\ ReadClock
    /\ Handled("tick", "tick")
    /\ UNCHANGED <<build, modelVars, cmds, eventsDay>>

\* case tickMsg: the pending tick is delivered and tickCmd() schedules the next
TickMsg ==
    /\ Running
    /\ ticks > 0
    /\ ticks' = ticks - 1 + 1
    /\ ReadClock
    /\ Handled("tick", "tick")
    /\ UNCHANGED <<build, modelVars, cmds, eventsDay>>

\* keys that reach the switch over the bindings with the overlay shown
KeysLiveUnderHelp == Running

\* a key reaches the switch over the bindings: always in model.go, only while
\* the help overlay is hidden in part_003
KeysLive == Running /\ ~showHelp

\* part_003: `if m.showHelp { m.showHelp = false; return m, nil }`
KeyDismissHelp ==
    /\ Running
    /\ build = "part_003"
    /\ showHelp
    /\ showHelp' = FALSE
    /\ Handled("dismiss", "none")
    /\ UNCHANGED <<build, now, events, selectedIdx, currentDate, width, height,
                   listWidth, detailWidth, contentHeight, compactMode,
                   viewportReady, focusedPanel, loading, err, cmds,
                   ticks, eventsDay>>

KeyQuit ==
    /\ KeysLive
    /\ Handled("quit", "quit")
    /\ UNCHANGED <<build, now, modelVars, cmds, ticks, eventsDay>>

\* part_003: case key.Matches(msg, m.keys.Help)
KeyHelp ==
    /\ KeysLive
    /\ build = "part_003"
    /\ showHelp' = TRUE
    /\ Handled("help", "none")
    /\ UNCHANGED <<build, now, events, selectedIdx, currentDate, width, height,
                   listWidth, detailWidth, contentHeight, compactMode,
                   viewportReady, focusedPanel, loading, err, cmds,
                   ticks, eventsDay>>

KeyUp ==
    /\ KeysLive
    /\ IF selectedIdx > 0
       THEN selectedIdx' = selectedIdx - 1 /\ ReadClock
       ELSE UNCHANGED <<selectedIdx, now>>
    /\ Handled("up", "none")
    /\ UNCHANGED <<build, events, currentDate, width, height, listWidth,
                   detailWidth, contentHeight, compactMode, viewportReady,
                   focusedPanel, showHelp, loading, err, cmds, ticks,
                   eventsDay>>

\* a bound that lets the selection step past the last event
DownLimitPastEnd(n) == n

\* `if m.selectedIdx < len(m.events)-1`
DownLimit(n) == n - 1

KeyDown ==
    /\ KeysLive
    /\ IF selectedIdx < DownLimit(Len(events))
       THEN selectedIdx' = selectedIdx + 1 /\ ReadClock
       ELSE UNCHANGED <<selectedIdx, now>>
    /\ Handled("down", "none")
    /\ UNCHANGED <<build, events, currentDate, width, height, listWidth,
                   detailWidth, contentHeight, compactMode, viewportReady,
                   focusedPanel, showHelp, loading, err, cmds, ticks,
                   eventsDay>>

\* ScrollUp / ScrollDown: ViewUp / ViewDown of the list or detail viewport;
\* no field of the Model other than the viewport's own offset changes
KeyScroll ==
    /\ KeysLive
    /\ Handled("scroll", "none")
    /\ UNCHANGED <<build, now, modelVars, cmds, ticks, eventsDay>>

\* m.currentDate = m.currentDate.AddDate(0, 0, by); m.loading = true;
\* return m, m.loadEvents()
ChangeDay(by, kind) ==
    /\ currentDate + by \in Days
    /\ Pending < MaxPending
    /\ currentDate' = currentDate + by
    /\ loading' = TRUE
    /\ Issue(currentDate + by)
    /\ Handled(kind, "fetch")
    /\ UNCHANGED <<build, now, events, selectedIdx, width, height, listWidth,
                   detailWidth, contentHeight, compactMode, viewportReady,
                   focusedPanel, showHelp, err, ticks, eventsDay>>

\* a focus switch that also reloads the viewed day
SetFocusReload(panel, kind) ==
    /\ focusedPanel' = panel
    /\ loading' = TRUE
    /\ Issue(currentDate)
    /\ Handled(kind, "fetch")
    /\ UNCHANGED <<build, now, events, selectedIdx, currentDate, width, height,
                   listWidth, detailWidth, contentHeight, compactMode,
                   viewportReady, showHelp, err, ticks, eventsDay>>

SetFocus(panel, kind) ==
    /\ focusedPanel' = panel
    /\ Handled(kind, "none")
    /\ UNCHANGED <<build, now, events, selectedIdx, currentDate, width, height,
                   listWidth, detailWidth, contentHeight, compactMode,
                   viewportReady, showHelp, loading, err, cmds, ticks,
                   eventsDay>>

\* NextDay (right, and l in model.go)
KeyNextDay ==
    /\ KeysLive
    /\ IF build = "model.go" /\ compactMode
       THEN SetFocus(FocusDetail, "focus")
       ELSE ChangeDay(1, "day")

\* PrevDay (left, and h in model.go)
KeyPrevDay ==
    /\ KeysLive
    /\ IF build = "model.go" /\ compactMode
       THEN SetFocus(FocusList, "focus")
       ELSE ChangeDay(-1, "day")

\* model.go: ForwardDay (n, ])
KeyForwardDay == KeysLive /\ build = "model.go" /\ ChangeDay(1, "day")

\* model.go: BackDay (p, [)
KeyBackDay == KeysLive /\ build = "model.go" /\ ChangeDay(-1, "day")

\* part_003, Today (t) while today is shown: `m.selectedIdx =
\* m.findNowEventIdx(); m.scrollToNow()`, nothing is fetched
KeyTodayNow ==
    /\ KeysLive
    /\ ReadClock
    /\ Handled("now", "none")
    /\ build = "part_003" /\ IsToday(currentDate, now')
    /\ selectedIdx' = findNowEventIdx(events, currentDate, now')
    /\ UNCHANGED <<build, events, currentDate, width, height, listWidth,
                   detailWidth, contentHeight, compactMode, viewportReady,
                   focusedPanel, showHelp, loading, err, cmds, ticks,
                   eventsDay>>

\* Today (t) otherwise: `m.currentDate = time.Now(); m.loading = true;
\* return m, m.loadEvents()`
KeyToday ==
    /\ KeysLive
    /\ ReadClock
    /\ Handled("today", "fetch")
    /\ ~(build = "part_003" /\ IsToday(currentDate, now'))
    /\ Pending < MaxPending
    /\ currentDate' = DateOf(now')
    /\ loading' = TRUE
    /\ Issue(DateOf(now'))
    /\ UNCHANGED <<build, events, selectedIdx, width, height, listWidth,
                   detailWidth, contentHeight, compactMode, viewportReady,
                   focusedPanel, showHelp, err, ticks, eventsDay>>

KeyTab ==
    /\ KeysLive
    /\ SetFocus(IF focusedPanel = FocusList THEN FocusDetail ELSE FocusList,
                "focus")

KeyRefresh ==
    /\ KeysLive
    /\ Pending < MaxPending
    /\ loading' = TRUE
    /\ Issue(currentDate)
    /\ Handled("refresh", "fetch")
    /\ UNCHANGED <<build, now, events, selectedIdx, currentDate, width, height,
                   listWidth, detailWidth, contentHeight, compactMode,
                   viewportReady, focusedPanel, showHelp, err, ticks,
                   eventsDay>>

\* Open (enter, and o in model.go): openURL of the selected event's meeting
\* link when it has one
KeyOpen ==
    /\ KeysLive
    /\ Handled("open",
               IF Len(events) > 0 /\ selectedIdx < Len(events)
               THEN (IF events[selectedIdx + 1].MeetingLink # ""
                     THEN "open" ELSE "none")
               ELSE "none")
    /\ UNCHANGED <<build, now, modelVars, cmds, ticks, eventsDay>>

\* the key bindings the two builds share
KeyMsg ==
    \/ KeyQuit
    \/ KeyUp
    \/ KeyDown
    \/ KeyScroll
    \/ KeyNextDay
    \/ KeyPrevDay
    \/ KeyToday
    \/ KeyTab
    \/ KeyRefresh
    \/ KeyOpen

\* Model.View: what the content area shows
View ==
    IF width = 0 THEN "Loading..."
    ELSE IF loading THEN "Loading events..."
    ELSE IF err # NoErr THEN "Error"
    ELSE IF compactMode
         THEN (IF showHelp THEN "help"
               ELSE IF focusedPanel = FocusList THEN "list" ELSE "detail")
         ELSE (IF showHelp THEN "list+help" ELSE "list+detail")

\* Update of either build, less the keys only one of them binds
Update ==
    \/ \E w \in TuiWidths, h \in TuiHeights : WindowSizeMsg(w, h)
    \/ FetchCompleted
    \/ TickMsg
    \/ KeyMsg

\* Update of internal/tui/model.go
TuiNext ==
    \/ Update
    \/ KeyForwardDay
    \/ KeyBackDay

\* Update of part_003, the build with the help overlay
HelpNext ==
    \/ Update
    \/ KeyDismissHelp
    \/ KeyHelp
    \/ KeyTodayNow

\* the layout engine alone, over every width up to MaxWidth
LayoutHeights == {0, 9, 10, 11, 24, 50}

\* the first size message carries any width; afterwards the window is
\* dragged a column at a time
LayoutNext ==
    \E w \in 0..MaxWidth, h \in LayoutHeights :
        /\ width = 0 \/ w \in {width - 1, width + 1}
        /\ WindowSizeMsg(w, h)

----------------------------------------------------------------------------
(* tsk next: runNext *)

\* the events the calendars hold around the morning of day 0, ordered by
\* start as FetchEvents returns them
NextEventPool ==
    << [Start |-> At(0, 0, 0),  End |-> At(1, 0, 0),   IsAllDay |-> TRUE],
       [Start |-> At(0, 8, 30), End |-> At(0, 9, 30),  IsAllDay |-> FALSE],
       [Start |-> At(0, 9, 0),  End |-> At(0, 10, 0),  IsAllDay |-> FALSE],
       [Start |-> At(0, 9, 0),  End |-> At(0, 9, 30),  IsAllDay |-> FALSE],
       [Start |-> At(0, 9, 30), End |-> At(0, 10, 30), IsAllDay |-> FALSE],
       [Start |-> At(0, 11, 0), End |-> At(0, 12, 0),  IsAllDay |-> FALSE],
       [Start |-> At(1, 0, 0),  End |-> At(2, 0, 0),   IsAllDay |-> TRUE] >>

\* what FetchEvents can return: at most MaxNextEvents of the events held
NextInputs ==
    {SubSeqAt(NextEventPool, I) :
        I \in IndexSets(Len(NextEventPool), MaxNextEvents)}

\* instants at which the command is run
NextInstants == {At(0, 8, 0), At(0, 8, 45), At(0, 9, 15)}

\* Event.InProgress: now.After(e.Start) && now.Before(e.End)
InProgress(e, t) == t > e.Start /\ t < e.End

\* the loop that collects `eligible`
IsEligible(e, t, skipAllDay) ==
    /\ ~(skipAllDay /\ e.IsAllDay)
    /\ (e.Start > t \/ (InProgress(e, t) /\ ~e.IsAllDay))

eligible(evs, t, skipAllDay) ==
    SelectSeq(evs, LAMBDA e : IsEligible(e, t, skipAllDay))

RECURSIVE ConcurrentRun(_, _, _)
\* `for _, e := range eligible { if e.Start.Equal(nextStart) {...} else { break } }`
ConcurrentRun(elig, i, nextStart) ==
    IF i > Len(elig) THEN << >>
    ELSE IF elig[i].Start = nextStart
         THEN <<elig[i]>> \o ConcurrentRun(elig, i + 1, nextStart)
         ELSE << >>

concurrent(elig) == ConcurrentRun(elig, 1, elig[1].Start)

NextInit ==
    /\ nextEvents \in NextInputs
    /\ nextNow \in NextInstants
    /\ noAllDay \in BOOLEAN
    /\ nextShown = << >>
    /\ nextReport = "input"

NextIdle ==
    /\ nextEvents = << >>
    /\ nextNow = At(0, 0, 0)
    /\ noAllDay = FALSE
    /\ nextShown = << >>
    /\ nextReport = "off"

\* runNext from the eligibility loop on
RunNext ==
    /\ nextReport = "input"
    /\ LET elig == eligible(nextEvents, nextNow, noAllDay)
       IN IF Len(elig) = 0
          THEN nextShown' = << >> /\ nextReport' = "none"
          ELSE /\ nextShown' = concurrent(elig)
               /\ nextReport' = IF Len(concurrent(elig)) > 1
                                THEN "conflict" ELSE "next"
    /\ UNCHANGED <<nextEvents, nextNow, noAllDay, aggVars, oooVars, tuiVars,
                   cliVars>>

----------------------------------------------------------------------------
(* Command line: parseDate *)

\* time.Weekday of a calendar day, Sunday = 0; day 0 is Sunday 2026-03-01
Weekday(day) == day % 7

\* the weekdays map of parseDate
weekdays ==
    [n \in {"sunday", "sun", "monday", "mon", "tuesday", "tue", "wednesday",
            "wed", "thursday", "thu", "friday", "fri", "saturday", "sat"} |->
        CASE n \in {"sunday", "sun"}       -> 0
          [] n \in {"monday", "mon"}       -> 1
          [] n \in {"tuesday", "tue"}      -> 2
          [] n \in {"wednesday", "wed"}    -> 3
          [] n \in {"thursday", "thu"}     -> 4
          [] n \in {"friday", "fri"}       -> 5
          [] n \in {"saturday", "sat"}     -> 6]

\* strings.ToLower(strings.TrimSpace(s)) on the texts tried
Normalise(s) ==
    CASE s = "Friday" -> "friday"
      [] s = " mon "  -> "mon"
      [] OTHER        -> s

\* texts that begin with "next ", and what follows the prefix
NextPrefixed ==
    [s \in {"next " \o n : n \in DOMAIN weekdays}
           \cup {"next today", "next next monday"} |->
        CASE s = "next today"       -> "today"
          [] s = "next next monday" -> "next monday"
          [] OTHER -> CHOOSE n \in DOMAIN weekdays : s = "next " \o n]

\* strings.TrimPrefix(s, "next ")
TrimPrefixNext(s) == IF s \in DOMAIN NextPrefixed THEN NextPrefixed[s] ELSE s

\* the layouts "2006-01-02", "01-02", "01/02" and "01/02/2006" on the texts
\* tried (the current year is 2026): the calendar day each one denotes
ExplicitDates ==
    [s \in {"2026-03-15", "03-15", "03/15", "03/20/2026"} |->
        IF s = "03/20/2026" THEN 19 ELSE 14]

\* the text parseDate cannot read
ParseError == "unable to parse date"

parseDate(s, defaultTime, nowT) ==
    LET s1      == Normalise(s)
        today   == Midnight(DateOf(nowT))
        dayName == TrimPrefixNext(s1)
    IN CASE s1 = "today"     -> [t |-> today, err |-> NoErr]
         [] s1 = "tomorrow"  -> [t |-> today + DayLen, err |-> NoErr]
         [] s1 = "yesterday" -> [t |-> today - DayLen, err |-> NoErr]
         [] OTHER ->
            IF dayName \in DOMAIN weekdays
            THEN LET d         == weekdays[dayName] - Weekday(DateOf(today))
                     daysUntil == IF d <= 0 THEN d + 7 ELSE d
                 IN [t |-> today + daysUntil * DayLen, err |-> NoErr]
            ELSE IF s1 \in DOMAIN ExplicitDates
                 THEN [t |-> Midnight(ExplicitDates[s1]), err |-> NoErr]
                 ELSE [t |-> defaultTime, err |-> ParseError]

\* the texts given to --from and --to
DateInputs ==
    DOMAIN weekdays \cup DOMAIN NextPrefixed \cup DOMAIN ExplicitDates
        \cup {"today", "tomorrow", "yesterday", "Friday", " mon ", "someday"}

\* the instants at which the command is run: one in each day of a week
DateInstants == {At(d, 10, 30) : d \in 7..13}

DateInit ==
    /\ dateNow \in DateInstants
    /\ dateInput \in DateInputs
    /\ dateOut = [t |-> 0, err |-> NoErr]
    /\ datePc = "input"

DateIdle ==
    /\ dateNow = At(0, 0, 0)
    /\ dateInput = ""
    /\ dateOut = [t |-> 0, err |-> NoErr]
    /\ datePc = "off"

\* `start, err = parseDate(fromStr, now)`
ParseDate ==
    /\ datePc = "input"
    /\ dateOut' = parseDate(dateInput, dateNow, dateNow)
    /\ datePc' = "parsed"
    /\ UNCHANGED <<dateNow, dateInput, listVars, calVars, detVars, statVars,
                   aggVars,
                   oooVars, tuiVars, nextVars,
                   tokenVars>>

----------------------------------------------------------------------------
(* list command: listEvents with smart out-of-office *)

\* the events the calendars hold on the days 0..2, ordered by start: whole-day
\* out-of-office events of the primary calendar on day 0 and on day 2, and
\* meetings on each of the days
ListEventPool ==
    << [Calendar |-> "primary", Type |-> TypeOutOfOffice,
        Start |-> At(0, 0, 0),  End |-> At(1, 0, 0)],
       [Calendar |-> "team",    Type |-> TypeDefault,
        Start |-> At(0, 14, 0), End |-> At(0, 15, 0)],
       [Calendar |-> "primary", Type |-> TypeDefault,
        Start |-> At(1, 9, 0),  End |-> At(1, 10, 0)],
       [Calendar |-> "team",    Type |-> TypeDefault,
        Start |-> At(1, 15, 0), End |-> At(1, 16, 0)],
       [Calendar |-> "primary", Type |-> TypeOutOfOffice,
        Start |-> At(2, 0, 0),  End |-> At(3, 0, 0)],
       [Calendar |-> "team",    Type |-> TypeDefault,
        Start |-> At(2, 11, 0), End |-> At(2, 12, 0)] >>

\* what the calendars can hold: at most MaxListEvents of those events
ListWorlds ==
    {SubSeqAt(ListEventPool, I) :
        I \in IndexSets(Len(ListEventPool), MaxListEvents)}

\* the instant the command is run at
ListNow == At(1, 10, 30)

\* --from: not given (start = now), "yesterday" or "today"
ListStarts == {ListNow, Midnight(DateOf(ListNow)) - DayLen, Midnight(DateOf(ListNow))}

\* --days, in days
ListDays == 2

\* adapter.FetchEvents on distinct events, each on one calendar: the events
\* of the calendars asked for that have one of the types asked for and that
\* the API returns for timeMin = start, timeMax = end (those that end after
\* start and begin before end)
FetchWindow(held, start, end, calendarIDs, types) ==
    SelectSeq(held, LAMBDA e : /\ e.Calendar \in calendarIDs
                               /\ e.Type \in types
                               /\ e.End > start
                               /\ e.Start < end)

getOOOPeriods(held, start, end, primaryCalendar) ==
    IF primaryCalendar = "" THEN << >>
    ELSE LET evs == FetchWindow(held, start, end, {primaryCalendar},
                                {TypeOutOfOffice})
         IN [k \in 1..Len(evs) |-> [Start |-> evs[k].Start, End |-> evs[k].End]]

ListInit ==
    /\ listHeld \in ListWorlds
    /\ listNow = ListNow
    /\ listStart \in ListStarts
    /\ listShowOOO \in BOOLEAN
    /\ listPeriods = << >>
    /\ listOut = << >>
    /\ listPc = "input"

ListIdle ==
    /\ listHeld = << >>
    /\ listNow = At(0, 0, 0)
    /\ listStart = At(0, 0, 0)
    /\ listShowOOO = FALSE
    /\ listPeriods = << >>
    /\ listOut = << >>
    /\ listPc = "off"

\* the end of the listed range: start plus --days
ListEnd(start) == start + ListDays * DayLen

\* listEvents with smart_ooo set, from the fetch on
ListEvents ==
    /\ listPc = "input"
    /\ LET end     == ListEnd(listStart)
           types   == {TypeDefault} \cup
                          (IF listShowOOO THEN {TypeOutOfOffice} ELSE {})
           fetched == FetchWindow(listHeld, listStart, end,
                                  {"primary", "team"}, types)
           periods == getOOOPeriods(listHeld, listNow, end, PrimaryCalendar)
       IN /\ listPeriods' = periods
          /\ listOut' = IF Len(periods) > 0
                        THEN filterEventsOutsideOOO(fetched, periods,
                                                    PrimaryCalendar)
                        ELSE fetched
    /\ listPc' = "listed"
    /\ UNCHANGED <<listHeld, listNow, listStart, listShowOOO, dateVars,
                   calVars, detVars, statVars, aggVars, oooVars, tuiVars,
                   nextVars,
                   tokenVars>>

----------------------------------------------------------------------------
(* Calendar filter: --calendars *)

\* adapter.Calendars(): the display name of each calendar, in lower case
CalendarNameLower == [c \in Calendars |->
                         IF c = "primary" THEN "personal" ELSE "team calendar"]

\* the names given with --calendars, between the commas
FilterNames == {"primary", "team", "Team", " personal", "a", "work", ""}

\* strings.TrimSpace(name) on those names
TrimSpace(name) == IF name = " personal" THEN "personal" ELSE name

\* strings.ToLower(name) on those names
ToLower(name) == IF name = "Team" THEN "team" ELSE name

\* strings.Contains(strings.ToLower(calName), nameLower) on those names
NameContains(calNameLower, nameLower) ==
    CASE nameLower = "a"        -> TRUE
      [] nameLower = "team"     -> calNameLower = "team calendar"
      [] nameLower = "personal" -> calNameLower = "personal"
      [] OTHER                  -> FALSE

RECURSIVE resolveCalendarNames(_)
\* resolveCalendarNames(names, adapter.Calendars()): every list of ids it can
\* return; `for id, calName := range calendars` visits the map in an
\* unspecified order and stops at the first calendar whose name matches
resolveCalendarNames(names) ==
    IF names = << >> THEN {<< >>}
    ELSE LET name      == TrimSpace(Head(names))
             nameLower == ToLower(name)
             rest      == resolveCalendarNames(Tail(names))
             byName    == {id \in Calendars :
                              NameContains(CalendarNameLower[id], nameLower)}
         IN IF name = "" THEN rest
            ELSE IF name \in Calendars THEN {<<name>> \o r : r \in rest}
            ELSE IF byName = {} THEN rest
            ELSE {<<id>> \o r : id \in byName, r \in rest}

\* the error of the list and next commands when no name resolves
NoMatchingCalendars == "no matching calendars found"

\* the items the calendars hold when a calendar filter is tried
CalFilterItems ==
    { [ICalUID |-> "uidA", Start |-> 1, End |-> WindowEnd, IsDate |-> FALSE,
       EventType |-> "default"],
      [ICalUID |-> "", Start |-> 2, End |-> WindowEnd, IsDate |-> FALSE,
       EventType |-> "default"] }

\* a command run with --calendars set to at most MaxFilterNames names;
\* strings.Split gives the single name "" only for the empty text, which is
\* no filter
CalInit ==
    /\ calCmd \in {"list", "next", "ui"}
    /\ calFilter \in SeqsUpTo(FilterNames, MaxFilterNames) \ {<< >>, <<"">>}
    /\ calIDs = << >>
    /\ calErr = NoErr
    /\ calPc = "input"
    /\ calItems \in [Calendars -> SeqsUpTo(CalFilterItems, 1)]
    /\ includeTypes = {TypeDefault}
    /\ includeStatuses = {}
    /\ excludeAllDay = FALSE
    /\ apiDown = {}
    /\ aggPc = "idle"
    /\ aggOrder = << >>
    /\ aggRaw = << >>
    /\ aggDedup = << >>
    /\ aggOut1 = << >>
    /\ aggOut2 = << >>
    /\ aggErr = NoErr

CalIdle ==
    /\ calCmd = "off"
    /\ calFilter = << >>
    /\ calIDs = << >>
    /\ calErr = NoErr
    /\ calPc = "off"

\* the "Calendar filter" block of listEvents, runNext and buildFetchOptions:
\* listEvents and runNext return an error when no name resolves,
\* buildFetchOptions leaves opts.CalendarIDs empty
ResolveCalendars ==
    /\ calPc = "input"
    /\ \E ids \in resolveCalendarNames(calFilter) :
          /\ calIDs' = ids
          /\ IF Len(ids) = 0 /\ calCmd \in {"list", "next"}
             THEN calErr' = NoMatchingCalendars /\ calPc' = "failed"
             ELSE calErr' = NoErr /\ calPc' = "resolved"
    /\ UNCHANGED <<calCmd, calFilter, dateVars, listVars, detVars, statVars,
                   aggVars,
                   oooVars, tuiVars, nextVars,
                   tokenVars>>

\* adapter.FetchEvents(ctx, opts) with the opts.CalendarIDs so built: with
\* none, every calendar is visited
FetchRestricted ==
    /\ calPc = "resolved"
    /\ \E order \in (IF Len(calIDs) = 0 THEN VisitOrders ELSE {calIDs}) :
          FetchEvents(order)

----------------------------------------------------------------------------
(* Primary calendar: detectPrimaryCalendar *)

\* identities a calendar can have: the Google key "primary", personal
\* accounts, a Google group calendar and an opaque Outlook id
DetectIDs ==
    {"primary", "me@example.com", "you@example.com",
     "c_1@group.calendar.google.com", "AAMkAD"}

\* display names a calendar can have
DetectNames == {"Calendar", "Work"}

\* adapter.Calendars(): every map from some of the identities to names
DetectWorlds == UNION {[S -> DetectNames] : S \in SUBSET DetectIDs}

\* the values of primary_calendar tried: not set, an identity, a name
DetectConfigured == {"", "AAMkAD", "work"}

\* strings.Contains(id, "@")
HasAt(id) == id \notin {"primary", "AAMkAD"}

\* strings.Contains(id, "@group.calendar.google.com")
IsGroupCalendar(id) == id = "c_1@group.calendar.google.com"

\* resolveCalendarNames([]string{configured}, adapter.Calendars()): the lists
\* it can return for the configured values tried
resolveConfigured(configured, calendars) ==
    IF configured \in DOMAIN calendars THEN {<<configured>>}
    ELSE LET byName == {id \in DOMAIN calendars :
                           configured = "work" /\ calendars[id] = "Work"}
         IN IF byName = {} THEN {<< >>} ELSE {<<id>> : id \in byName}

\* a detection that goes straight to the last step: any calendar
detectPrimaryCalendarAny(configured, calendars) ==
    IF DOMAIN calendars = {} THEN {""} ELSE DOMAIN calendars

\* detectPrimaryCalendar(configured): every value it can return; the `range`
\* loops visit the map in an unspecified order
detectPrimaryCalendar(configured, calendars) ==
    LET ids      == DOMAIN calendars
        named    == {id \in ids : calendars[id] = "Calendar"}
        personal == {id \in ids : HasAt(id) /\ ~IsGroupCalendar(id)}
    IN IF configured # ""
       THEN {IF Len(r) > 0 THEN r[1] ELSE configured :
                r \in resolveConfigured(configured, calendars)}
       ELSE IF "primary" \in ids THEN {"primary"}
       ELSE IF named # {} THEN named
       ELSE IF personal # {} THEN personal
       ELSE IF ids # {} THEN ids
       ELSE {""}

DetectInit ==
    /\ detCalendars \in DetectWorlds
    /\ detConfigured \in DetectConfigured
    /\ detOut = ""
    /\ detPc = "input"

DetectIdle ==
    /\ detCalendars = << >>
    /\ detConfigured = ""
    /\ detOut = ""
    /\ detPc = "off"

\* primaryCal := detectPrimaryCalendar(viper.GetString("primary_calendar"))
DetectPrimary ==
    /\ detPc = "input"
    /\ detOut' \in detectPrimaryCalendar(detConfigured, detCalendars)
    /\ detPc' = "detected"
    /\ UNCHANGED <<detCalendars, detConfigured, dateVars, listVars, calVars,
                   statVars, aggVars, oooVars, tuiVars, nextVars,
                   tokenVars>>

----------------------------------------------------------------------------
(* Temporal status of an event: detail panel and tsk next *)

\* the events whose status is asked for: timed meetings and an all-day event
StatusEvents ==
    { [Start |-> At(0, 9, 0),  End |-> At(0, 10, 0), IsAllDay |-> FALSE],
      [Start |-> At(0, 9, 30), End |-> At(0, 10, 0), IsAllDay |-> FALSE],
      [Start |-> At(0, 10, 0), End |-> At(0, 10, 30), IsAllDay |-> FALSE],
      [Start |-> At(0, 0, 0),  End |-> At(1, 0, 0),  IsAllDay |-> TRUE] }

\* the instants time.Now() can return: before, at and between the starts and
\* ends of those events
StatusInstants ==
    {At(0, 0, 0), At(0, 8, 0), At(0, 9, 0), At(0, 9, 45), At(0, 10, 0),
     At(0, 10, 15), At(0, 10, 30), At(1, 0, 0), At(1, 8, 0)}

\* event.End.Before(now)
HasEnded(e, t) == e.End < t

\* event.Start.After(now)
IsUpcoming(e, t) == e.Start > t

\* the "Status: Past / In Progress / Upcoming" block of updateDetailContent:
\* the status lines it appends
StatusLines(e, t) ==
    IF HasEnded(e, t) THEN <<"ended">>
    ELSE IF InProgress(e, t) THEN <<"in progress">>
    ELSE IF IsUpcoming(e, t) THEN <<"starts in">>
    ELSE << >>

StatusInit ==
    /\ statEvent \in StatusEvents
    /\ statNow \in StatusInstants
    /\ statNoAllDay \in BOOLEAN
    /\ statLines = << >>
    /\ statEligible = << >>
    /\ statPc = {}

StatusIdle ==
    /\ statEvent = [Start |-> 0, End |-> 0, IsAllDay |-> FALSE]
    /\ statNow = At(0, 0, 0)
    /\ statNoAllDay = FALSE
    /\ statLines = << >>
    /\ statEligible = << >>
    /\ statPc = {"off"}

\* updateDetailContent on the selected event
ShowDetailStatus ==
    /\ statPc \subseteq {"next"}
    /\ statLines' = StatusLines(statEvent, statNow)
    /\ statPc' = statPc \cup {"detail"}
    /\ UNCHANGED <<statEvent, statNow, statNoAllDay, statEligible, dateVars,
                   listVars, calVars, detVars, aggVars, oooVars, tuiVars,
                   nextVars,
                   tokenVars>>

\* the eligibility loop of runNext on that event alone
CollectEligible ==
    /\ statPc \subseteq {"detail"}
    /\ statEligible' = eligible(<<statEvent>>, statNow, statNoAllDay)
    /\ statPc' = statPc \cup {"next"}
    /\ UNCHANGED <<statEvent, statNow, statNoAllDay, statLines, dateVars,
                   listVars, calVars, detVars, aggVars, oooVars, tuiVars,
                   nextVars,
                   tokenVars>>

----------------------------------------------------------------------------
(* Outlook adapter: tokenCredential.GetToken *)

\* the goroutines that call GetToken: one per background fetch
Callers == 1..MaxCallers

\* the token the identity platform issues on the n-th refresh at hour t: it
\* lives for one hour
IssuedToken(n, t) == [AccessToken |-> n, Expiry |-> t + 1]

\* oauth2.Token.Valid(): the token has not expired
Valid(tok, t) == t < tok.Expiry

\* the error of accessToken when the refresh fails
RefreshFailed == "token expired and refresh failed"

\* Open has read the saved token, issued at hour 0
TokenInit ==
    /\ authClock = 0
    /\ authToken = IssuedToken(0, 0)
    /\ authIssued = {IssuedToken(0, 0)}
    /\ gtPc = [p \in Callers |-> "start"]
    /\ gtTok = [p \in Callers |-> -1]
    /\ gtOut = [p \in Callers |-> [Token |-> -1, ExpiresOn |-> -1, err |-> NoErr]]

TokenIdle ==
    /\ authClock = 0
    /\ authToken = IssuedToken(0, 0)
    /\ authIssued = {}
    /\ gtPc = << >>
    /\ gtTok = << >>
    /\ gtOut = << >>

TokenFrame ==
    UNCHANGED <<dateVars, listVars, calVars, detVars, statVars, aggVars,
                oooVars, tuiVars, nextVars>>

\* time passes
ClockTick ==
    /\ authClock < MaxHours
    /\ authClock' = authClock + 1
    /\ UNCHANGED <<authToken, authIssued, gtPc, gtTok, gtOut>>
    /\ TokenFrame

\* `tok, err := c.adapter.accessToken(ctx)`: the whole of accessToken runs
\* under tokenMu; a token that is no longer valid is refreshed, and the
\* refresh can fail
AccessTokenCall(p) ==
    /\ gtPc[p] = "start"
    /\ IF Valid(authToken, authClock)
       THEN /\ gtTok' = [gtTok EXCEPT ![p] = authToken.AccessToken]
            /\ gtPc' = [gtPc EXCEPT ![p] = "has token"]
            /\ UNCHANGED <<authToken, authIssued, gtOut>>
       ELSE \/ LET newTok == IssuedToken(authToken.AccessToken + 1, authClock)
               IN /\ authToken' = newTok
                  /\ authIssued' = authIssued \cup {newTok}
                  /\ gtTok' = [gtTok EXCEPT ![p] = newTok.AccessToken]
                  /\ gtPc' = [gtPc EXCEPT ![p] = "has token"]
                  /\ UNCHANGED gtOut
            \/ /\ gtOut' = [gtOut EXCEPT ![p].err = RefreshFailed]
               /\ gtPc' = [gtPc EXCEPT ![p] = "failed"]
               /\ UNCHANGED <<authToken, authIssued, gtTok>>
    /\ UNCHANGED authClock
    /\ TokenFrame

\* the second critical section of GetToken: `expiry := c.adapter.token.Expiry`
\* under tokenMu, and the return of the pair
ReadExpiry(p) ==
    /\ gtPc[p] = "has token"
    /\ gtOut' = [gtOut EXCEPT ![p] = [Token |-> gtTok[p],
                                      ExpiresOn |-> authToken.Expiry,
                                      err |-> NoErr]]
    /\ gtPc' = [gtPc EXCEPT ![p] = "returned"]
    /\ UNCHANGED <<authClock, authToken, authIssued, gtTok>>
    /\ TokenFrame

CliIdle ==
    DateIdle /\ ListIdle /\ CalIdle /\ DetectIdle /\ StatusIdle /\ TokenIdle

----------------------------------------------------------------------------
(* Specifications *)

\* the next command from the events it was handed
InitNext == NextInit /\ AggIdle /\ OOOIdle /\ TuiIdle /\ CliIdle

NextNext == RunNext

SpecNext == InitNext /\ [][NextNext]_vars

\* parseDate on the texts of --from and --to
InitDate ==
    DateInit /\ ListIdle /\ CalIdle /\ DetectIdle /\ AggIdle /\ OOOIdle
        /\ TuiIdle /\ NextIdle /\ TokenIdle /\ StatusIdle

DateNext == ParseDate

SpecDate == InitDate /\ [][DateNext]_vars

\* the list command with smart out-of-office
InitList ==
    ListInit /\ DateIdle /\ CalIdle /\ DetectIdle /\ AggIdle /\ OOOIdle
        /\ TuiIdle /\ NextIdle /\ TokenIdle /\ StatusIdle

ListNext == ListEvents

SpecList == InitList /\ [][ListNext]_vars

\* a command run with a calendar filter
InitCal ==
    CalInit /\ DateIdle /\ ListIdle /\ DetectIdle /\ OOOIdle /\ TuiIdle
        /\ NextIdle /\ TokenIdle /\ StatusIdle

CalNext == ResolveCalendars \/ FetchRestricted

SpecCal == InitCal /\ [][CalNext]_vars

\* detection of the primary calendar
InitDetect ==
    DetectInit /\ DateIdle /\ ListIdle /\ CalIdle /\ AggIdle /\ OOOIdle
        /\ TuiIdle /\ NextIdle /\ TokenIdle /\ StatusIdle

DetectNext == DetectPrimary

SpecDetect == InitDetect /\ [][DetectNext]_vars

\* the temporal status of one event in the detail panel and in tsk next
InitStatus ==
    StatusInit /\ DateIdle /\ ListIdle /\ CalIdle /\ DetectIdle /\ AggIdle
        /\ OOOIdle /\ TuiIdle /\ NextIdle /\ TokenIdle

StatusNext == ShowDetailStatus \/ CollectEligible

SpecStatus == InitStatus /\ [][StatusNext]_vars

\* concurrent callers of GetToken around the expiry of the saved token
InitToken ==
    TokenInit /\ DateIdle /\ ListIdle /\ CalIdle /\ DetectIdle /\ StatusIdle
        /\ AggIdle /\ OOOIdle /\ TuiIdle /\ NextIdle

TokenNext ==
    \/ ClockTick
    \/ \E p \in Callers : AccessTokenCall(p)
    \/ \E p \in Callers : ReadExpiry(p)

SpecToken == InitToken /\ [][TokenNext]_vars

\* the adapter's aggregation pipeline alone
InitAgg == AggInit /\ OOOIdle /\ TuiIdle /\ NextIdle /\ CliIdle

SpecAgg == InitAgg /\ [][AggNext]_vars

\* the aggregation pipeline under type filters and failing calendars
InitFetch == FetchInit /\ OOOIdle /\ TuiIdle /\ NextIdle /\ CliIdle

SpecFetch == InitFetch /\ [][AggNext]_vars

\* the aggregation pipeline under status filters and all-day exclusion
InitQuery == QueryInit /\ OOOIdle /\ TuiIdle /\ NextIdle /\ CliIdle

SpecQuery == InitQuery /\ [][AggNext]_vars

\* the list command's out-of-office filter alone
InitOOO == OOOInit /\ AggIdle /\ TuiIdle /\ NextIdle /\ CliIdle

OOONext == FilterOOO

SpecOOO == InitOOO /\ [][OOONext]_vars

\* the TUI of internal/tui/model.go
Init == build = "model.go" /\ TuiInit /\ AggIdle /\ OOOIdle /\ NextIdle /\ CliIdle

SpecLayout == Init /\ [][LayoutNext]_vars

Next == TuiNext

Spec == Init /\ [][Next]_vars

\* the TUI of internal/tui/model.go with its commands run to completion:
\* bubbletea runs every command in a goroutine of its own and queues the
\* message it returns, so a loadEvents command in flight is delivered as long
\* as the provider call returns and the program is running
Fairness == WF_vars(FetchCompleted)

\* a session in which every reading of the clock falls in the same afternoon
\* minute
InitLive == Init /\ now = At(Today, 15, 0)

SpecLive == InitLive /\ [][Next]_vars /\ Fairness

\* the TUI of part_003
InitHelp == build = "part_003" /\ TuiInit /\ AggIdle /\ OOOIdle /\ NextIdle /\ CliIdle

SpecHelp == InitHelp /\ [][HelpNext]_vars

----------------------------------------------------------------------------
(* Properties of the aggregation pipeline *)

Indices(s) == DOMAIN s

\* positions of the records of s that carry dedupe key k
WithKey(s, k) == {i \in Indices(s) : s[i].DedupeKey = k}

KeySet(s) == {s[i].DedupeKey : i \in Indices(s)}

RECURSIVE TotalAffiliations(_)
TotalAffiliations(s) ==
    IF s = << >> THEN 0 ELSE Len(Head(s).Calendars) + TotalAffiliations(Tail(s))

\* number of positions of s holding the record r
Occurrences(s, r) == Cardinality({i \in Indices(s) : s[i] = r})

IsPermutation(s, t) ==
    /\ Len(s) = Len(t)
    /\ \A i \in Indices(s) : Occurrences(s, s[i]) = Occurrences(t, s[i])

LatestOut == IF aggPc = "twice" THEN aggOut2 ELSE aggOut1

\* C1: for every non-empty dedupe key k of the list handed to
\* deduplicateEvents, the output holds exactly one record with key k, and
\* that record has as many affiliations as the input has records with key k.
C1_DedupCompleteness ==
    aggPc # "idle" =>
        \A k \in KeySet(aggRaw) \ {""} :
            /\ Cardinality(WithKey(aggDedup, k)) = 1
            /\ \A i \in WithKey(aggDedup, k) :
                   Len(aggDedup[i].Calendars) = Cardinality(WithKey(aggRaw, k))

\* a key carried by three input records, two of them from the same calendar
C1_Witness ==
    /\ aggPc # "idle"
    /\ \E k \in KeySet(aggRaw) \ {""} :
          /\ Cardinality(WithKey(aggRaw, k)) = 3
          /\ \E i \in WithKey(aggDedup, k) : Len(aggDedup[i].Calendars) = 3

\* C2: what sortEventsByStartTime leaves (and so what FetchEvents returns)
\* is ordered by start, a.Start <= b.Start for every adjacent pair, and is
\* a permutation of the list it was given.
C2_SortOrder ==
    aggPc # "idle" =>
        /\ \A i \in Indices(LatestOut) :
               i < Len(LatestOut) => LatestOut[i].Start <= LatestOut[i + 1].Start
        /\ IsPermutation(aggDedup, LatestOut)

\* the sort had to move records: the deduplicated list was out of order
C2_Witness ==
    /\ aggPc # "idle"
    /\ Len(aggDedup) >= 3
    /\ \E i \in Indices(aggDedup) :
           i < Len(aggDedup) /\ aggDedup[i].Start > aggDedup[i + 1].Start
    /\ LatestOut # aggDedup

\* C8: two runs of the pipeline on the same calendars' data, whatever the
\* order in which each run visits the calendars, return sequences with the
\* same set of dedupe keys and the same total number of affiliations.
C8_DedupIdempotence ==
    aggPc = "twice" =>
        /\ KeySet(aggOut1) = KeySet(aggOut2)
        /\ TotalAffiliations(aggOut1) = TotalAffiliations(aggOut2)

\* the two runs visited the calendars in different orders, returned
\* different sequences, and an event was present on both calendars
C8_Witness ==
    /\ aggPc = "twice"
    /\ aggOut1 # aggOut2
    /\ TotalAffiliations(aggOut1) >= 3
    /\ \E i \in Indices(aggOut1) :
           /\ Len(aggOut1[i].Calendars) >= 2
           /\ \E j \in Indices(aggOut2) :
                  /\ aggOut2[j].DedupeKey = aggOut1[i].DedupeKey
                  /\ aggOut2[j].Calendar # aggOut1[i].Calendar

----------------------------------------------------------------------------
(* Properties of the out-of-office filter *)

\* the period lies within one local calendar day
CoversSingleDay(p) ==
    p.Start < p.End /\ p.End <= Midnight(DateOf(p.Start) + 1)

InsideDay(e, day) ==
    e.Start < e.End /\ Midnight(day) <= e.Start /\ e.End <= Midnight(day + 1)

OutsideDay(e, day) ==
    e.Start < e.End /\ (e.End <= Midnight(day) \/ Midnight(day + 1) <= e.Start)

\* positions io, ip, ic, ix of the list hold the four events of the scenario
\* for period p: the out-of-office event itself, an event of another type
\* inside the day on the primary calendar, an event inside the day on
\* another calendar, an event outside the day
OOOScenario(evs, p, io, ip, ic, ix) ==
    LET day == DateOf(p.Start) IN
    /\ Cardinality({io, ip, ic, ix}) = 4
    /\ evs[io].Calendar = PrimaryCalendar
    /\ evs[io].Type = TypeOutOfOffice
    /\ evs[io].Start = p.Start /\ evs[io].End = p.End
    /\ evs[ip].Calendar = PrimaryCalendar
    /\ evs[ip].Type # TypeOutOfOffice
    /\ InsideDay(evs[ip], day)
    /\ evs[ic].Calendar # PrimaryCalendar
    /\ InsideDay(evs[ic], day)
    /\ OutsideDay(evs[ix], day)

\* C3: with one out-of-office period within a single day D and the four
\* events {the out-of-office event on the primary calendar, another event
\* inside D on the primary calendar, an event inside D on another calendar,
\* an event outside D}, filterEventsOutsideOOO returns exactly the
\* out-of-office event and the event outside D.
C3_OOOExactness ==
    (oooPc = "filtered" /\ Len(oooEvents) = 4 /\ Len(oooPeriods) = 1) =>
        (CoversSingleDay(oooPeriods[1]) =>
            \A io, ip, ic, ix \in 1..4 :
                OOOScenario(oooEvents, oooPeriods[1], io, ip, ic, ix) =>
                    oooFiltered = SubSeqAt(oooEvents, {io, ix}))

\* the scenario was filtered, with the period being the working hours of
\* the day and the suppressed primary-calendar event lying outside them
C3_Witness ==
    /\ oooPc = "filtered" /\ Len(oooEvents) = 4 /\ Len(oooPeriods) = 1
    /\ CoversSingleDay(oooPeriods[1])
    /\ Len(oooFiltered) = 2
    /\ \E io, ip, ic, ix \in 1..4 :
          /\ OOOScenario(oooEvents, oooPeriods[1], io, ip, ic, ix)
          /\ oooEvents[ip].Start >= oooPeriods[1].End
          /\ oooEvents[ic].Type = TypeOutOfOffice

----------------------------------------------------------------------------
(* Properties of the TUI *)

\* the selection is a valid index of the displayed sequence, 0 when it is empty
SelectionInRange ==
    IF Len(events) > 0
    THEN 0 <= selectedIdx /\ selectedIdx < Len(events)
    ELSE selectedIdx = 0

\* C4: after any sequence of resize, fetch-completed, tick and key messages
\* the selected index is within 0..len(events)-1 when the displayed sequence
\* is non-empty and 0 when it is empty; Up at index 0 and Down at the last
\* index change nothing of the Model and return no command.
C4_SelectionInvariant ==
    /\ [](build # "off" => SelectionInRange)
    /\ [][(lastMsg' = "up" /\ selectedIdx = 0)
              => (modelVars' = modelVars /\ lastCmd' = "none")]_vars
    /\ [][(lastMsg' = "down" /\ Len(events) > 0
                             /\ selectedIdx = Len(events) - 1)
              => (modelVars' = modelVars /\ lastCmd' = "none")]_vars

\* Down was handled with the last of three events selected, and the
\* selection stayed on it
C4_Witness ==
    /\ lastMsg = "down"
    /\ Len(events) = 3
    /\ prev = <<3, 2>>
    /\ selectedIdx = 2

\* C5 as stated: a successful fetch-completed message that replaces a
\* sequence of length N by one of length M < N while index N-1 was selected
\* leaves index M-1 selected (0 if M = 0).
C5_ClampedToLast ==
    (lastMsg = "loaded" /\ Len(events) < prev[1] /\ prev[2] = prev[1] - 1)
        => selectedIdx = (IF Len(events) = 0 THEN 0 ELSE Len(events) - 1)

\* positions of s holding a timed event that starts strictly after t
FutureTimed(s, t) == {i \in DOMAIN s : ~s[i].IsAllDay /\ s[i].Start > t}

\* the least element of a non-empty set of numbers
Least(S) == CHOOSE i \in S : \A j \in S : i <= j

\* C5: a successful fetch-completed message that replaces a sequence of
\* length N by one of length M < N while index N-1 was selected does not
\* clamp the old index: it selects index 0 when M = 0 or the viewed day is
\* not today, and otherwise the first timed event that starts strictly after
\* the current instant, or index M-1 when there is none; the index selected
\* is always below M when M > 0.
C5_RecomputedOnLoad ==
    (lastMsg = "loaded" /\ Len(events) < prev[1] /\ prev[2] = prev[1] - 1)
        => /\ selectedIdx =
                 IF Len(events) = 0 \/ currentDate # DateOf(now) THEN 0
                 ELSE IF FutureTimed(events, now) = {} THEN Len(events) - 1
                 ELSE Least(FutureTimed(events, now)) - 1
           /\ Len(events) > 0 => selectedIdx < Len(events)

\* three events with the last one selected were replaced by two of today
\* that both lie ahead, and the first of them is selected
C5_Witness ==
    /\ lastMsg = "loaded"
    /\ prev = <<3, 2>>
    /\ Len(events) = 2
    /\ currentDate = DateOf(now)
    /\ FutureTimed(events, now) = {1, 2}
    /\ selectedIdx = 0

\* the number of entries of the rendered list above the NOW divider
MarkerPosition(items) ==
    Least({k \in DOMAIN items : items[k] = NowLine}) - 1

\* the displayed sequence is the timed events at 9:00, 11:00 and 14:00
NineElevenTwo ==
    /\ Len(events) = 3
    /\ \A i \in 1..3 : ~events[i].IsAllDay
    /\ events[1].Start = At(Today, 9, 0)
    /\ events[2].Start = At(Today, 11, 0)
    /\ events[3].Start = At(Today, 14, 0)

\* C6: when the viewed day is today, the list renderer (updateListContent)
\* draws exactly one NOW divider, above the first non-all-day event that
\* starts strictly after the current instant, or below the last entry if
\* there is none; scrollToNow and scrollListToSelection compute the same
\* position; for timed events at 9:00, 11:00 and 14:00 it is position 2 at
\* 11:30 (between the 11:00 and 14:00 entries) and position 3 at 15:00.
C6_MarkerPlacement ==
    (build # "off" /\ Len(events) > 0 /\ IsToday(currentDate, now)) =>
        LET items == updateListContent(events, currentDate, now)
            pos == IF FutureTimed(events, now) = {} THEN Len(events)
                   ELSE Least(FutureTimed(events, now)) - 1
        IN /\ Cardinality({k \in DOMAIN items : items[k] = NowLine}) = 1
           /\ MarkerPosition(items) = pos
           /\ scrollToNowDividerLine(events, now) = pos
           /\ scrollListNowDividerIdx(events, now) = pos
           /\ (NineElevenTwo /\ now = At(Today, 11, 30)) => pos = 2
           /\ (NineElevenTwo /\ now = At(Today, 15, 0)) => pos = 3

\* the events at 9:00, 11:00 and 14:00 of today were loaded at 11:30 and the
\* divider is drawn between the 11:00 and the 14:00 entry
C6_Witness ==
    /\ lastMsg = "loaded"
    /\ IsToday(currentDate, now)
    /\ NineElevenTwo
    /\ now = At(Today, 11, 30)
    /\ updateListContent(events, currentDate, now)
           = <<ListItem(0), ListItem(1), NowLine, ListItem(2)>>

\* C7: after calculateLayout has run for a terminal width below 70 the
\* layout is compact; for a width of 70 or more it is paired, the list at
\* least 30 and the detail panel at least 35 columns wide.
C7_LayoutFloor ==
    lastMsg = "resize" =>
        /\ width < 70 => compactMode
        /\ width >= 70 =>
               (~compactMode /\ listWidth >= 30 /\ detailWidth >= 35)

\* the narrowest paired layout: both floors are met with equality
C7_Witness ==
    /\ lastMsg = "resize"
    /\ width = 70
    /\ ~compactMode
    /\ listWidth = 30
    /\ detailWidth = 35

\* C9: once a fetch-completed message that carries a sequence and no error
\* has been handled (the terminal size being known), loading is false, no
\* last error is set and the view shows the event panels.
C9_LoadingToReady ==
    (lastMsg = "loaded" /\ width # 0) =>
        /\ ~loading
        /\ err = NoErr
        /\ View \in {"list", "detail", "list+detail"}

\* C10: handling a fetch-completed message that carries an error sets the
\* last error and clears loading, and leaves the displayed sequence and the
\* selected index as they were.
C10_FailedFetchKeepsState ==
    [][lastMsg' = "failed"
           => /\ err' # NoErr
              /\ ~loading'
              /\ events' = events
              /\ selectedIdx' = selectedIdx]_vars

\* a fetch failed while three events were displayed and the third selected,
\* with no error set before
C10_Witness ==
    /\ lastMsg = "failed"
    /\ err # NoErr
    /\ ~loading
    /\ Len(events) = 3
    /\ selectedIdx = 2
    /\ prev = <<3, 2>>

\* C11: every step that handles a day-changing key (next/previous day, jump
\* to today) or a refresh, and every step that changes the viewed day, sets
\* loading and issues exactly one fetch command, for the window of the day
\* viewed after the step; a refresh leaves the viewed day as it was.
C11_RefetchTriggers ==
    /\ [][(lastMsg' \in {"day", "today", "refresh"}
              \/ currentDate' # currentDate)
             => /\ loading'
                /\ lastCmd' = "fetch"
                /\ cmds' = [cmds EXCEPT ![currentDate'] = @ + 1]]_vars
    /\ [][lastMsg' = "refresh" => currentDate' = currentDate]_vars

\* the next day was opened while the first fetch for today was still in
\* flight: one command for each of the two windows is pending
C11_Witness ==
    /\ lastMsg = "day"
    /\ lastCmd = "fetch"
    /\ currentDate = Today + 1
    /\ loading
    /\ cmds[Today] = 1
    /\ cmds[Today + 1] = 1

\* C12: a step that handles a panel-focus switch (tab, or left/right in
\* single-panel mode) or a panel scroll returns no command, issues no fetch
\* and leaves the viewed day, the displayed sequence, the selected index, the
\* loading flag and the last error unchanged.
C12_FocusScrollFetchFree ==
    [][lastMsg' \in {"focus", "scroll"}
          => /\ lastCmd' = "none"
             /\ cmds' = cmds
             /\ UNCHANGED <<currentDate, events, selectedIdx, loading, err>>]_vars

\* in single-panel mode the focus went to the detail panel while a loaded
\* day with a selection past the first event was on display
C12_Witness ==
    /\ lastMsg = "focus"
    /\ compactMode
    /\ focusedPanel = FocusDetail
    /\ ~loading
    /\ Len(events) > 1
    /\ selectedIdx > 0

\* C13: a step that handles a tick returns the tick command and nothing else:
\* it issues no fetch, leaves the viewed day, the displayed sequence, the
\* selected index, the loading flag and the last error unchanged, and consumes
\* one pending tick to schedule one; at most one tick is ever pending.
C13_TickDisplayOnly ==
    /\ [](ticks <= 1)
    /\ [][lastMsg' = "tick"
             => /\ lastCmd' = "tick"
                /\ cmds' = cmds
                /\ ticks' = ticks
                /\ UNCHANGED <<currentDate, events, selectedIdx, loading,
                               err>>]_vars

\* a tick was handled later than the load before it, with a fetch for the
\* next day still in flight and today's events on display
C13_Witness ==
    /\ lastMsg = "tick"
    /\ ticks = 1
    /\ now = At(Today, 15, 0)
    /\ Len(events) > 0
    /\ loading
    /\ Pending > 0

\* C14: after FetchEvents has run, when opts.IncludeTypes is empty every event
\* of the result has the default type, and when it is non-empty every event
\* of the result has a type that is a member of it.
C14_TypeFilterFloor ==
    aggPc # "idle" =>
        \A i \in 1..Len(LatestOut) :
            IF includeTypes = {}
            THEN LatestOut[i].Type = TypeDefault
            ELSE LatestOut[i].Type \in includeTypes

\* C15 as stated: every event FetchEvents returns has at least one calendar
\* affiliation in its Calendars list, whatever its dedupe key.
C15_AffiliationInvariant ==
    aggPc # "idle" =>
        \A i \in 1..Len(LatestOut) : Len(LatestOut[i].Calendars) >= 1

\* C15 (amended): every event FetchEvents returns with a non-empty dedupe key
\* has at least one affiliation, the first being its own calendar, status and
\* URL; an event with an empty dedupe key is returned with the empty
\* Calendars list parseEvent gave it.
C15_AffiliationByKey ==
    aggPc # "idle" =>
        \A i \in 1..Len(LatestOut) :
            LET e == LatestOut[i] IN
            IF e.DedupeKey = ""
            THEN e.Calendars = << >>
            ELSE /\ Len(e.Calendars) >= 1
                 /\ e.Calendars[1] = CalendarResponse(e)

\* the result holds an event without a key and an event merged from both
\* calendars
C15_Witness ==
    /\ aggPc # "idle"
    /\ \E i, j \in 1..Len(LatestOut) :
          /\ LatestOut[i].DedupeKey = ""
          /\ LatestOut[j].DedupeKey # ""
          /\ Len(LatestOut[j].Calendars) = 2

\* the items of the calendars whose API call succeeds that pass the type
\* filter and carry key k, as (calendar, position) pairs
KeptItemsWithKey(k) ==
    { <<c, i>> \in (Calendars \ apiDown) \X (1..MaxPerCal + 1) :
        /\ i <= Len(calItems[c])
        /\ calItems[c][i].ICalUID = k
        /\ (includeTypes = {}
              \/ ParseType(calItems[c][i].EventType) \in includeTypes) }

PartialFailure == apiDown # {} /\ apiDown # Calendars

\* C16: when the API call fails for some calendars and succeeds for others,
\* FetchEvents returns no error; its result is sorted by start, holds one
\* event per kept item without a key and one event per key of the kept items
\* of the calendars that succeeded, with one affiliation per such item; no
\* event and no affiliation of the result belongs to a failing calendar.
C16_PartialFailure ==
    (aggPc # "idle" /\ PartialFailure) =>
        /\ aggErr = NoErr
        /\ \A i \in 1..Len(LatestOut) :
              /\ LatestOut[i].Calendar \notin apiDown
              /\ \A j \in 1..Len(LatestOut[i].Calendars) :
                    LatestOut[i].Calendars[j].Calendar \notin apiDown
        /\ \A i, j \in 1..Len(LatestOut) :
              i < j => LatestOut[i].Start <= LatestOut[j].Start
        /\ Cardinality({i \in 1..Len(LatestOut) : LatestOut[i].DedupeKey = ""})
              = Cardinality(KeptItemsWithKey(""))
        /\ \A k \in DedupeKeys \ {""} :
              LET hits == {i \in 1..Len(LatestOut) : LatestOut[i].DedupeKey = k}
              IN IF KeptItemsWithKey(k) = {}
                 THEN hits = {}
                 ELSE /\ Cardinality(hits) = 1
                      /\ \A i \in hits :
                            Len(LatestOut[i].Calendars)
                               = Cardinality(KeptItemsWithKey(k))

\* the team calendar failed, the primary calendar was visited after it and
\* its events came back, both calendars holding items
C16_Witness ==
    /\ aggPc # "idle"
    /\ apiDown = {"team"}
    /\ aggOrder = <<"team", "primary">>
    /\ Len(calItems["team"]) > 0
    /\ Len(LatestOut) = MaxPerCal
    /\ aggErr = NoErr

\* C17: when the API call fails for every calendar, so that nothing was
\* retrieved for the window, FetchEvents returns an error for loadEvents to
\* put in the fetch-completed message.
C17_WholeWindowFailure ==
    (aggPc # "idle" /\ apiDown = Calendars) => aggErr # NoErr

\* the interval [Start, End) of r meets the local calendar day
OverlapsDay(r, day) == r.Start < Midnight(day + 1) /\ r.End > Midnight(day)

\* the calendar days the events and periods of the model can touch
OOODays == 0..3

\* an event that lies on a day some out-of-office period overlaps
OnOverlappedDay(e, periods) ==
    \E k \in 1..Len(periods), day \in OOODays :
        OverlapsDay(periods[k], day) /\ OverlapsDay(e, day)

\* C18: for every out-of-office period and every local calendar day the
\* period overlaps, isEventOnOOODay is true of every event that overlaps that
\* day, so after filtering no such event is left except an out-of-office
\* event of the primary calendar.
C18_OOODayCoverage ==
    oooPc = "filtered" =>
        /\ \A i \in 1..Len(oooEvents) :
              OnOverlappedDay(oooEvents[i], oooPeriods)
                  => isEventOnOOODay(oooEvents[i], oooPeriods)
        /\ \A j \in 1..Len(oooFiltered) :
              OnOverlappedDay(oooFiltered[j], oooPeriods)
                  => IsOOOEventItself(oooFiltered[j], PrimaryCalendar)

\* s is t with some of its records left out, the others in their order
RECURSIVE IsSubsequence(_, _)
IsSubsequence(s, t) ==
    IF s = << >> THEN TRUE
    ELSE IF t = << >> THEN FALSE
    ELSE IF Head(s) = Head(t) THEN IsSubsequence(Tail(s), Tail(t))
    ELSE IsSubsequence(s, Tail(t))

\* every input event on no out-of-office day is in the output as it was, and
\* the output is the input with some events left out
OOOPassesThrough ==
    /\ \A i \in 1..Len(oooEvents) :
          ~OnOverlappedDay(oooEvents[i], oooPeriods)
              => \E j \in 1..Len(oooFiltered) : oooFiltered[j] = oooEvents[i]
    /\ IsSubsequence(oooFiltered, oooEvents)

\* C19: after filtering, every input event that overlaps no out-of-office day
\* is in the output, unmodified; the output keeps the input order; and every
\* event of the output either overlaps no out-of-office day or is an
\* out-of-office event of the primary calendar.
C19_OOOPassThrough ==
    oooPc = "filtered" =>
        /\ OOOPassesThrough
        /\ \A j \in 1..Len(oooFiltered) :
              \/ ~OnOverlappedDay(oooFiltered[j], oooPeriods)
              \/ IsOOOEventItself(oooFiltered[j], PrimaryCalendar)

\* C20: right after a successful fetch-completed message, the selected index
\* is 0 when the viewed day is not the current calendar day; when it is the
\* current day and the sequence is not empty, it is the index of the first
\* non-all-day event that starts strictly after now, or the last index when
\* there is no such event.
C20_DefaultSelectionOnLoad ==
    lastMsg = "loaded" =>
        /\ currentDate # DateOf(now) => selectedIdx = 0
        /\ (currentDate = DateOf(now) /\ Len(events) > 0) =>
              IF \E i \in 1..Len(events) :
                     ~events[i].IsAllDay /\ events[i].Start > now
              THEN /\ ~events[selectedIdx + 1].IsAllDay
                   /\ events[selectedIdx + 1].Start > now
                   /\ \A i \in 1..selectedIdx :
                         events[i].IsAllDay \/ events[i].Start <= now
              ELSE selectedIdx = Len(events) - 1

\* today's list was loaded with an all-day event first, one timed event
\* behind and one ahead: the one ahead, in the middle of the list, is selected
C20_Witness ==
    /\ lastMsg = "loaded"
    /\ currentDate = DateOf(now)
    /\ Len(events) = 3
    /\ events[1].IsAllDay
    /\ events[2].Start <= now
    /\ events[3].Start > now
    /\ selectedIdx = 2

\* the list is rendered for today with at least one event, so that it holds
\* a NOW divider
MarkerShown(t) == viewportReady /\ Len(events) > 0 /\ IsToday(currentDate, t)

\* C21: of two ticks handled one after the other (no fetch completes and the
\* day does not change between them), the second leaves the NOW marker at the
\* position among the list entries where the first rendered it.
C21_TickKeepsMarker ==
    [][(lastMsg = "tick" /\ lastMsg' = "tick"
          /\ MarkerShown(now) /\ MarkerShown(now'))
         => MarkerPosition(updateListContent(events', currentDate', now'))
               = MarkerPosition(updateListContent(events, currentDate, now))]_vars

\* the position of the only copy of record e in s
PositionOf(e, s) == CHOOSE k \in DOMAIN s : s[k] = e

\* C22: any two events of the deduplicated list with equal start instants are
\* in the same relative order in the sequence FetchEvents returns.
C22_StableTies ==
    aggPc # "idle" =>
        \A i, j \in DOMAIN aggDedup :
            (/\ i < j
             /\ aggDedup[i].Start = aggDedup[j].Start
             /\ Occurrences(aggDedup, aggDedup[i]) = 1
             /\ Occurrences(aggDedup, aggDedup[j]) = 1)
                => PositionOf(aggDedup[i], LatestOut)
                      < PositionOf(aggDedup[j], LatestOut)

\* C23: the records without a dedupe key come out of deduplicateEvents one
\* for one, as they went in and in their order, so there are as many of them
\* in the output as in the input; none of them, in the deduplicated list or in
\* the sequence FetchEvents returns, holds an affiliation.
C23_EmptyKeysNeverMerged ==
    aggPc # "idle" =>
        /\ Cardinality(WithKey(aggDedup, "")) = Cardinality(WithKey(aggRaw, ""))
        /\ SubSeqAt(aggDedup, WithKey(aggDedup, ""))
              = SubSeqAt(aggRaw, WithKey(aggRaw, ""))
        /\ Cardinality(WithKey(LatestOut, "")) = Cardinality(WithKey(aggRaw, ""))
        /\ \A i \in WithKey(LatestOut, "") : LatestOut[i].Calendars = << >>

\* two records without a key that start at the same instant, one on each
\* calendar, went in next to a key that was merged
C23_Witness ==
    /\ aggPc # "idle"
    /\ \E i, j \in WithKey(aggRaw, "") :
          /\ aggRaw[i].Calendar # aggRaw[j].Calendar
          /\ aggRaw[i].Start = aggRaw[j].Start
    /\ Cardinality(WithKey(LatestOut, "")) = 2
    /\ \E k \in Indices(LatestOut) : Len(LatestOut[k].Calendars) = 2

\* C24: for every non-empty dedupe key, the record deduplicateEvents keeps
\* has the Calendar, Status and URL (and start) of the first input record
\* with that key, and its affiliations are the (calendar, status, URL)
\* triples of the input records with that key, in arrival order, the first
\* being its own.
C24_FirstSeenRepresentative ==
    aggPc # "idle" =>
        \A k \in KeySet(aggRaw) \ {""} :
            LET arrivals == SubSeqAt(aggRaw, WithKey(aggRaw, k))
            IN \A i \in WithKey(aggDedup, k) :
                  /\ aggDedup[i].Calendar = arrivals[1].Calendar
                  /\ aggDedup[i].Status = arrivals[1].Status
                  /\ aggDedup[i].URL = arrivals[1].URL
                  /\ aggDedup[i].Start = arrivals[1].Start
                  /\ aggDedup[i].Calendars =
                        [n \in 1..Len(arrivals) |-> CalendarResponse(arrivals[n])]

\* the team calendar was visited first: the representative of a key seen
\* there once and then twice on the primary calendar, at another start, is
\* the team's record
C24_Witness ==
    /\ aggPc # "idle"
    /\ aggOrder = <<"team", "primary">>
    /\ \E k \in KeySet(aggRaw) \ {""} :
          \E i \in WithKey(aggDedup, k) :
              /\ aggDedup[i].Calendar = "team"
              /\ Len(aggDedup[i].Calendars) = 3
              /\ aggDedup[i].Calendars[2].Calendar = "primary"
              /\ aggDedup[i].Calendars[2].URL[3] # aggDedup[i].Start

\* the item is an all-day entry for the window: it carries a date only, or
\* its times reach from the window start or before to the window end or after
AllDayItem(item) ==
    item.IsDate \/ (item.Start <= WindowStart /\ item.End >= WindowEnd)

\* the items of all calendars that the type filter and the all-day switch
\* let through, as (calendar, position) pairs
ItemsKeptApartFromStatus ==
    { <<c, i>> \in Calendars \X (1..MaxPerCal) :
        /\ i <= Len(calItems[c])
        /\ (includeTypes = {}
              \/ ParseType(calItems[c][i].EventType) \in includeTypes)
        /\ ~(excludeAllDay /\ AllDayItem(calItems[c][i])) }

\* C25: after FetchEvents has run with a non-empty opts.IncludeStatuses, every
\* event of the result has a response status in that set; with an empty set
\* no event is dropped for its status: every item the other filters let
\* through is among the events collected.
C25_StatusFilter ==
    aggPc # "idle" =>
        /\ includeStatuses # {} =>
              \A i \in 1..Len(LatestOut) : LatestOut[i].Status \in includeStatuses
        /\ includeStatuses = {} =>
              Len(aggRaw) = Cardinality(ItemsKeptApartFromStatus)

\* only accepted events were asked for: the rejected copies of the team
\* calendar were dropped and accepted events of the primary calendar returned
C25_Witness ==
    /\ aggPc # "idle"
    /\ includeStatuses = {StatusAccepted}
    /\ Len(calItems["team"]) = MaxPerCal
    /\ Len(calItems["primary"]) = MaxPerCal
    /\ ~excludeAllDay
    /\ Len(aggRaw) = MaxPerCal
    /\ Len(LatestOut) > 0

\* the event reaches from the window start or before to the window end or
\* after
SpansWindow(e) == e.Start <= WindowStart /\ e.End >= WindowEnd

\* C26: after FetchEvents has run with opts.ExcludeAllDay set, no event of
\* the result is all-day and none spans the whole window; without the flag,
\* every event of the result that spans the whole window is marked all-day,
\* whether the API sent it with dates or with times.
C26_AllDayExclusion ==
    aggPc # "idle" =>
        \A i \in 1..Len(LatestOut) :
            IF excludeAllDay
            THEN ~LatestOut[i].IsAllDay /\ ~SpansWindow(LatestOut[i])
            ELSE SpansWindow(LatestOut[i]) => LatestOut[i].IsAllDay

\* with the flag set, a calendar held the timed item that spans the window
\* next to a timed item inside it, and only the latter was returned
C26_Witness ==
    /\ aggPc # "idle"
    /\ excludeAllDay
    /\ includeStatuses = {}
    /\ \E i \in 1..Len(calItems["primary"]) :
          /\ ~calItems["primary"][i].IsDate
          /\ AllDayItem(calItems["primary"][i])
    /\ calItems["team"] = << >>
    /\ Len(calItems["primary"]) = 2
    /\ Len(LatestOut) = 1

\* all raw records of the visited calendars, unfiltered, in arrival order
RECURSIVE RawRecords(_)
RawRecords(calendarIDs) ==
    IF calendarIDs = << >> THEN << >>
    ELSE parseAll(calItems[Head(calendarIDs)], Head(calendarIDs))
         \o RawRecords(Tail(calendarIDs))

\* C27: the sequence FetchEvents returns is the deduplicated sequence of all
\* raw records with the type, status and all-day predicate applied to each
\* representative, sorted by start; so a surviving event has one affiliation
\* for every calendar it appears on.
C27_FilterAfterDedup ==
    aggPc # "idle" =>
        LatestOut = sortEventsByStartTime(
                        FilterPage(deduplicateEvents(RawRecords(aggOrder)),
                                   includeTypes, includeStatuses, excludeAllDay))

\* C28: right after a successful fetch-completed message of a request for a
\* day other than the one now viewed, the displayed sequence is the one the
\* message brought (a list of that other day), the selection is recomputed
\* for it against the viewed day, and loading is cleared, whether or not a
\* newer fetch is still in flight.
C28_StaleCompletionHandled ==
    (lastMsg = "loaded" /\ eventsDay # currentDate) =>
        /\ ~loading
        /\ events \in DayLists(eventsDay)
        /\ selectedIdx = findNowEventIdx(events, currentDate, now)

\* the user went on to the next day while the fetch for today was in
\* flight; today's events arrived and are shown under the next day's date,
\* with loading cleared and the next day's fetch still pending
C28_Witness ==
    /\ lastMsg = "loaded"
    /\ currentDate = Today + 1
    /\ eventsDay = Today
    /\ Len(events) > 0
    /\ ~loading
    /\ cmds[Today + 1] > 0

\* C29: a step that handles the key t while the viewed day is the current
\* calendar day selects the now-event, issues no fetch and leaves loading as
\* it was; while another day is viewed it sets the viewed day to today, sets
\* loading and issues one fetch for today.
C29_JumpToNowOrToday ==
    [][lastMsg' \in {"today", "now"} =>
          IF IsToday(currentDate, now')
          THEN /\ selectedIdx' = findNowEventIdx(events, currentDate, now')
               /\ lastCmd' = "none"
               /\ cmds' = cmds
               /\ UNCHANGED <<loading, currentDate, events>>
          ELSE /\ currentDate' = DateOf(now')
               /\ loading'
               /\ lastCmd' = "fetch"
               /\ cmds' = [cmds EXCEPT ![DateOf(now')] = @ + 1]]_vars

\* the time ranges of a and b overlap
RangesOverlap(a, b) == a.Start < b.End /\ b.Start < a.End

\* the positions of the events of nextEvents that may be shown: not skipped
\* by --no-allday, and starting after now or timed and in progress
EligiblePositions ==
    { i \in DOMAIN nextEvents :
        /\ ~(noAllDay /\ nextEvents[i].IsAllDay)
        /\ \/ nextEvents[i].Start > nextNow
           \/ (~nextEvents[i].IsAllDay
                 /\ nextEvents[i].Start < nextNow /\ nextNow < nextEvents[i].End) }

\* C30: when there is an eligible event, the first event shown is the first
\* eligible one; if other eligible events overlap it in time a conflict is
\* reported that lists it and all of them, and otherwise exactly that one
\* event is shown.
C30_NextConflict ==
    (nextReport \notin {"input", "off"} /\ EligiblePositions # {}) =>
        LET first  == Least(EligiblePositions)
            others == { i \in EligiblePositions \ {first} :
                          RangesOverlap(nextEvents[i], nextEvents[first]) }
        IN /\ nextShown[1] = nextEvents[first]
           /\ IF others = {}
              THEN nextReport = "next" /\ nextShown = <<nextEvents[first]>>
              ELSE /\ nextReport = "conflict"
                   /\ nextShown = SubSeqAt(nextEvents, {first} \cup others)

----------------------------------------------------------------------------
(* Properties of the command line *)

\* the calendar week of a day, weeks beginning on the weekday `first`
WeekOf(day, first) == (day + 7 - first) \div 7

\* the day lies in the week after today's, weeks counted from Sunday or from
\* Monday
InFollowingWeek(day, today) ==
    \E first \in {0, 1} : WeekOf(day, first) = WeekOf(today, first) + 1

\* C31: Weekday date parsing.  A weekday name w gives the first date strictly
\* after today that falls on w (1 to 7 days ahead); "next " followed by w
\* gives the date on w in the week after the current one (weeks counted from
\* Sunday or from Monday), never a date of the current week.
C31_WeekdayParsing ==
    (datePc = "parsed" /\ TrimPrefixNext(Normalise(dateInput)) \in DOMAIN weekdays) =>
        LET s1    == Normalise(dateInput)
            w     == weekdays[TrimPrefixNext(s1)]
            today == DateOf(dateNow)
            day   == DateOf(dateOut.t)
        IN /\ dateOut.err = NoErr
           /\ dateOut.t = Midnight(day)
           /\ Weekday(day) = w
           /\ IF s1 \in DOMAIN weekdays
              THEN /\ day \in (today + 1)..(today + 7)
                   /\ \A d \in (today + 1)..(day - 1) : Weekday(d) # w
              ELSE InFollowingWeek(day, today)

\* the days of the listed range [start, end] on which the primary calendar
\* holds an out-of-office event
ListOOODays ==
    { day \in OOODays :
        /\ Midnight(day + 1) > listStart
        /\ Midnight(day) <= ListEnd(listStart)
        /\ \E k \in 1..Len(listHeld) :
              /\ IsOOOEventItself(listHeld[k], PrimaryCalendar)
              /\ OverlapsDay(listHeld[k], day) }

\* C32: with smart out-of-office set, for every day of the listed range
\* [start, end] on which the primary calendar has an out-of-office event, the
\* listing holds no event that overlaps that day other than the out-of-office
\* event itself, also when the day lies before the current instant.
C32_SmartOOOWholeRange ==
    listPc = "listed" =>
        \A day \in ListOOODays : \A j \in 1..Len(listOut) :
            OverlapsDay(listOut[j], day)
                => IsOOOEventItself(listOut[j], PrimaryCalendar)

\* the calendars whose identity or display name matches one of the names
\* given
MatchingCalendars ==
    { id \in Calendars :
        \E k \in 1..Len(calFilter) :
            LET name == TrimSpace(calFilter[k])
            IN /\ name # ""
               /\ \/ id = name
                  \/ NameContains(CalendarNameLower[id], ToLower(name)) }

\* the calendars an event is affiliated with
Affiliations(e) ==
    {e.Calendar} \cup {e.Calendars[k].Calendar : k \in 1..Len(e.Calendars)}

\* C33: when a calendar filter is given, every event returned to the list
\* command, to next or to the TUI has all of its affiliations on calendars
\* whose identity or display name matches one of the names; when no calendar
\* matches, no event is returned.
C33_CalendarRestriction ==
    calPc \in {"resolved", "failed"} =>
        \A out \in {aggOut1, aggOut2} : \A j \in 1..Len(out) :
            Affiliations(out[j]) \subseteq MatchingCalendars

\* an identity of the shape of a personal account: it holds '@' and is not a
\* group calendar
PersonalShaped(id) == HasAt(id) /\ ~IsGroupCalendar(id)

\* the identities of the calendars whose display name is "Calendar"
NamedCalendar == {id \in DOMAIN detCalendars : detCalendars[id] = "Calendar"}

\* the identities of the shape of a personal account
PersonalIDs == {id \in DOMAIN detCalendars : PersonalShaped(id)}

\* C34 as stated: with no primary calendar configured, detectPrimaryCalendar
\* returns the identity marked primary if there is one; otherwise an identity
\* of the shape of a personal account if there is one; otherwise some
\* available calendar; and the empty string only when there is no calendar.
C34_PrimaryDetectionAsStated ==
    (detPc = "detected" /\ detConfigured = "") =>
        IF "primary" \in DOMAIN detCalendars THEN detOut = "primary"
        ELSE IF PersonalIDs # {} THEN detOut \in PersonalIDs
        ELSE IF DOMAIN detCalendars # {} THEN detOut \in DOMAIN detCalendars
        ELSE detOut = ""

\* C34: with no primary calendar configured, detectPrimaryCalendar returns
\* the identity "primary" if there is one; otherwise the identity of a
\* calendar named "Calendar" if there is one; otherwise an identity of the
\* shape of a personal account if there is one; otherwise some available
\* calendar; and the empty string only when there is no calendar.
C34_PrimaryDetection ==
    (detPc = "detected" /\ detConfigured = "") =>
        IF "primary" \in DOMAIN detCalendars THEN detOut = "primary"
        ELSE IF NamedCalendar # {} THEN detOut \in NamedCalendar
        ELSE IF PersonalIDs # {} THEN detOut \in PersonalIDs
        ELSE IF DOMAIN detCalendars # {} THEN detOut \in DOMAIN detCalendars
        ELSE detOut = ""

\* detection has passed over a personal account for a calendar named
\* "Calendar"
C34_Witness ==
    /\ detPc = "detected"
    /\ detConfigured = ""
    /\ "primary" \notin DOMAIN detCalendars
    /\ PersonalIDs # {}
    /\ detOut \in NamedCalendar \ PersonalIDs

----------------------------------------------------------------------------
(* Properties of the TUI under day navigation, completions and the overlay *)

\* C35: in every state in which the machine is Ready (loading is false and
\* there is no error), the displayed sequence is the result of a fetch whose
\* window is the currently viewed day, whatever the interleaving of day
\* navigation and fetch completions.
C35_DisplayedMatchesViewedDay ==
    (~loading /\ err = NoErr) => eventsDay = currentDate

\* a step in which Update handled a fetch-completed message
CompletionStep == lastMsg' \in {"loaded", "failed"} /\ Pending' # Pending

\* a step in which Update handled an input that triggers a fetch
FetchTriggerStep == lastCmd' = "fetch" /\ Pending' # Pending

\* C36: every fetch command issued produces exactly one fetch-completed
\* message (a command leaves the set in flight only by a completion step,
\* one command at a time, and loading becomes true only by an input that
\* triggers a fetch), and once the user stops issuing such inputs the running
\* machine eventually has no command in flight and has left Loading for good.
C36_FetchCompletionLiveness ==
    /\ [][/\ Pending' < Pending => (CompletionStep /\ Pending' = Pending - 1)
          /\ Pending' > Pending => (FetchTriggerStep /\ Pending' = Pending + 1)
          /\ (loading' /\ ~loading) => FetchTriggerStep]_vars
    /\ (<>[][~FetchTriggerStep]_vars)
           => <>[]((Pending = 0 /\ ~loading) \/ ~Running)

\* after a day navigation the last command in flight has completed, with a
\* failure, and the machine has left Loading
C36_Witness ==
    /\ Running
    /\ currentDate # Today
    /\ lastMsg = "failed"
    /\ Pending = 0
    /\ ~loading

\* the kinds of message that are not key presses
NonKeyKinds == {"resize", "tick", "loaded", "failed"}

\* what a key press that only toggles the overlay leaves alone
OverlayFrame ==
    /\ lastCmd' = "none"
    /\ UNCHANGED <<events, selectedIdx, currentDate, width, height, listWidth,
                   detailWidth, contentHeight, compactMode, viewportReady,
                   focusedPanel, loading, err, cmds, ticks, eventsDay>>

\* C37: in the build with a help overlay, while the overlay is shown a key
\* press only hides it: no command is issued and nothing else changes; while
\* it is hidden, '?' shows it and changes nothing else; a resize, a tick or a
\* fetch completion leaves the overlay as it is.
C37_HelpSwallowsKeys ==
    [][/\ (showHelp /\ lastMsg' \notin NonKeyKinds) => (~showHelp' /\ OverlayFrame)
       /\ (~showHelp /\ lastMsg' = "help") => (showHelp' /\ OverlayFrame)
       /\ lastMsg' \in NonKeyKinds => showHelp' = showHelp]_vars

\* a key has just been swallowed by the overlay while a fetch was in flight
\* and events were shown
C37_Witness ==
    /\ build = "part_003"
    /\ lastMsg = "dismiss"
    /\ ~showHelp
    /\ Pending > 0
    /\ Len(events) > 0

----------------------------------------------------------------------------
(* Properties of the temporal status *)

\* how many of the three statuses hold of the event at that instant
StatusCount(e, t) ==
    Cardinality({k \in {"ended", "in progress", "upcoming"} :
        \/ k = "ended" /\ HasEnded(e, t)
        \/ k = "in progress" /\ InProgress(e, t)
        \/ k = "upcoming" /\ IsUpcoming(e, t)})

\* C38: for every event with start < end and every instant, exactly one of
\* ended, in progress and upcoming holds, so the detail panel shows exactly
\* one status line and tsk next takes every event that has not ended as
\* eligible or in progress, also when the instant is the start or the end.
C38_StatusTotalExclusive ==
    (statPc = {"detail", "next"} /\ statEvent.Start < statEvent.End) =>
        /\ StatusCount(statEvent, statNow) = 1
        /\ Len(statLines) = 1
        /\ ~HasEnded(statEvent, statNow)
               => (Len(statEligible) = 1 \/ InProgress(statEvent, statNow))

----------------------------------------------------------------------------
(* Properties of the Outlook adapter *)

\* C39: when several fetches call GetToken at once while the saved token
\* expires and is refreshed, every call that returns hands back an access
\* token and an ExpiresOn that belong to one and the same OAuth token.
C39_TokenExpiryConsistent ==
    \A p \in DOMAIN gtPc :
        gtPc[p] = "returned" =>
            \E tok \in authIssued :
                /\ gtOut[p].Token = tok.AccessToken
                /\ gtOut[p].ExpiresOn = tok.Expiry

====
